---- MODULE Spec2Model ----
(***************************************************************************)
(* Candidate Pipeline Engine: the run orchestrator                         *)
(* (CandidatePipelineService.run), the relational store (CandidateStore)   *)
(* and the hybrid review / verification / promotion workflow.              *)
(*                                                                         *)
(* Spec         two run() invocations, each on its own store connection,   *)
(*              interleaved at their suspension points and between the     *)
(*              statements of beginRun.                                    *)
(* SpecSolo     one run() invocation over an empty store, with longer      *)
(*              candidate lists.                                           *)
(* SpecWorkflow the workflow operations of one service over a populated    *)
(*              store.                                                     *)
(* SpecUpsert   upsertCandidate called on an empty store, one call after   *)
(*              another.                                                   *)
(* SpecScore    computeCandidateScore evaluated on one input, with either  *)
(*              open-to-work flag.                                         *)
(* SpecIdentity, SpecDiagnostics, SpecEvidence: resolveIdentity, the       *)
(*              markRun* calls and addEvidenceLinks, each on its own.      *)
(* SpecRetry    one withRetry call, attempt by attempt.                    *)
(* SpecTarget   the target candidate count of one run() input.             *)
(* SpecLifecycle run() invocations one at a time, with reads and workflow  *)
(*              calls between them.                                        *)
(* SpecResume   a run() interrupted, then run again with the same key.     *)
(* SpecEntry    the CLI subcommands and the agent tool, from the flag on.  *)
(* SpecFlight   one run() with every collaborator call of the candidate    *)
(*              loop followed attempt by attempt.                          *)
(* SpecQueue    the verification queue and the workflow statistics read    *)
(*              over a populated store.                                    *)
(* SpecStage    the candidate loop of one run() with a failure recorded    *)
(*              per candidate, up to the diagnostics of the run.           *)
(* SpecBrowser  one run() under each browser verification configuration.   *)
(* SpecSoloLive SpecSolo, with the event loop taking every step that is    *)
(*              ready.                                                     *)
(* SpecSource   normalizeSearchForSourceMode applied to one run() input.   *)
(* SpecWeb      searchExa and fetchUrl calls against the module caches,    *)
(*              with the clock advancing between them.                     *)
(***************************************************************************)
EXTENDS Integers, Sequences, FiniteSets, Bags, TLC

\* ------------------------------------------------------------------ bounds
MaxCands == 2      \* longest candidate list the search returns (SpecSolo)
MaxCandsShared == 1 \* the same, when two invocations interleave (Spec)
MaxProof == 3      \* most evidence links handed to promoteCandidate
MaxCalls == 2      \* workflow calls made in one behaviour (SpecWorkflow)
MaxEvaluations == 2 \* computeCandidateScore evaluations of one input (SpecScore)
MaxUpserts == 3    \* upsertCandidate calls made in one behaviour (SpecUpsert)
MaxNow == 2        \* latest reading of the clock (SpecEvidence)
MaxBatch == 2      \* most links in one addEvidenceLinks call (SpecEvidence)
MaxQueries == 1    \* query and workflow calls made beside the runs (SpecLifecycle)
MaxClock == 1      \* latest reading of the clock (SpecLifecycle)

\* --------------------------------------------------------- program constants
DefaultMaxAttempts == 4     \* withRetry: params.maxAttempts ?? 4
DefaultBaseDelayMs == 600   \* withRetry: params.baseDelayMs ?? 600

\* ------------------------------------------------------------------ values
Procs == {"p1", "p2"}
\* input.idempotencyKey ?? dailyKey; "" is the falsy key beginRun does not look up
Keys == {"", "k1"}
\* run ids: crypto.randomUUID(), the n-th generated id is n (no caller of run()
\* passes input.runId)
NoRunId == 0
RunIds == 1..Cardinality(Procs)
NULL == "NULL"
NoUrl == << >>

\* Errors as the collaborators raise them, with what classifyLinkedInError and
\* the message test of isRetryableExternalError see in them.
Errors ==
  { [type |-> "rate_limit", isTransient |-> TRUE,  msg |-> "LinkedIn API error (429)"],
    [type |-> "auth",       isTransient |-> FALSE, msg |-> "unauthorized"],
    [type |-> "unknown",    isTransient |-> FALSE, msg |-> "fetch timeout"] }

RetryableMessages == {"LinkedIn API error (429)", "fetch timeout"}

\* Sourced candidates: provider_id, public_identifier, profile url (characters)
CandPool ==
  { [provider_id |-> "a", public_identifier |-> "alice", profile_url |-> <<"L", "/">>,
     headline |-> <<"L">>, current_company |-> <<"L">>, location |-> <<"l">>],
    [provider_id |-> "b", public_identifier |-> NULL,    profile_url |-> NoUrl,
     headline |-> << >>, current_company |-> << >>, location |-> << >>] }

VARIABLES
  pipeline_runs,             \* table pipeline_runs: set of rows
  run_failures,              \* table run_failures: per run, rows in insertion order
  candidates,                \* table candidates: set of rows
  candidate_source_records,  \* table candidate_source_records
  candidate_scores,          \* table candidate_scores
  candidate_identities,      \* table candidate_identities
  candidate_evidence_links,  \* table candidate_evidence_links
  candidate_reviews,         \* table candidate_reviews
  candidate_verifications,   \* table candidate_verifications, insertion order
  candidate_promotions,      \* table candidate_promotions, insertion order
  uuid,                      \* crypto.randomUUID(): ids handed out so far
  svc,                       \* per invocation of run(): its position and locals
  recruiting,                \* resolveRecruitingConfig(cfg), the resolved config
  last,                      \* the last workflow call and what it returned
  upserts,                   \* the upsertCandidate calls made on the store directly
  scoring,                   \* a computeCandidateScore input and its evaluations
  resolved,                  \* a resolveIdentity input and what it returned
  marked,                    \* per run, the diagnostics last handed to markRun*
  now,                       \* Date.now()
  retry,                     \* one withRetry call: its attempts and sleeps so far
  target,                    \* one run() input: the target it resolves to and its uses
  entryPoint,                \* one entry point taken: the CLI command or the agent tool
  calls,                     \* the collaborator calls of run() that have not settled
  candidate_signals,         \* table candidate_signals: a bag of rows
  sourceSearch,              \* one search as run() normalises it for its source mode
  SEARCH_CACHE,              \* the process-wide cache of web searches, by key
  FETCH_CACHE,               \* the process-wide cache of fetched pages, by url
  webCall,                   \* the searchExa or fetchUrl call being made, or just made
  webHistory                 \* per key, the latest answer of the web collaborator

storeVars == <<pipeline_runs, run_failures, candidates, candidate_source_records,
               candidate_scores, candidate_identities, candidate_evidence_links>>
workflowVars == <<candidate_reviews, candidate_verifications, candidate_promotions,
                  recruiting, last>>
\* The variables of the specifications that follow one call on its own
webVars == <<sourceSearch, SEARCH_CACHE, FETCH_CACHE, webCall, webHistory>>
auxVars == <<retry, target, entryPoint, calls, candidate_signals, webVars>>
libVars == <<upserts, scoring, resolved, marked, now, auxVars>>
\* libVars but for what the enrichment of a candidate writes
enrichFrame == <<upserts, scoring, resolved, marked, now, retry, target, entryPoint,
                webVars>>
vars == <<pipeline_runs, run_failures, candidates, candidate_source_records,
          candidate_scores, candidate_identities, candidate_evidence_links,
          candidate_reviews, candidate_verifications, candidate_promotions, uuid, svc,
          recruiting, last, upserts, scoring, resolved, marked, now, retry, target,
          entryPoint, calls, candidate_signals, sourceSearch, SEARCH_CACHE,
          FETCH_CACHE, webCall, webHistory>>

\* ------------------------------------------------------------------ helpers
SeqsUpTo(S, n) == UNION { [1..k -> S] : k \in 0..n }

RunRow(id) == CHOOSE r \in pipeline_runs : r.id = id
RunIdsOf(rows) == { r.id : r \in rows }

emptyCounts == [sourced |-> 0, enriched |-> 0, enrichFailed |-> 0,
                externalDiscovered |-> 0, identityConfirmedHigh |-> 0,
                identityMediumLow |-> 0, shortlistEligible |-> 0]
NoFailure == [stage |-> "none", errorType |-> "none"]
NoAccount == [enabled |-> FALSE, missingCredentials |-> {}, recruiterReady |-> FALSE,
              resolved |-> FALSE]
\* summary_json NULL
NoSummary == [counts |-> emptyCounts, failure |-> NoFailure, accountHealth |-> NoAccount,
              set |-> FALSE]

\* config.ts: clampNumber and the resolved promotion.minProofLinks
undefined == -1
\* A number that is not finite
NaN == 999999
clampNumber(value, min, max, fallback) ==
  IF value = undefined \/ value = NaN THEN fallback
  ELSE IF value < min THEN min ELSE IF value > max THEN max ELSE value

\* Candidate counts are tenths (1.5 is 15), so that Math.trunc has a fraction to drop
Tenths(n) == n * 10
MathTrunc(value) ==
  IF value = NaN THEN NaN
  ELSE IF value >= 0 THEN (value \div 10) * 10 ELSE -(((-value) \div 10) * 10)
\* Math.max: NaN when either argument is
MathMax(a, b) == IF a = NaN \/ b = NaN THEN NaN ELSE IF a > b THEN a ELSE b

\* A raw tools.recruiting.enabled: absent, a boolean, or the string "true"
BooleanTrue == [type |-> "boolean", value |-> TRUE]
RawEnabled == { [type |-> "undefined"], BooleanTrue,
                [type |-> "boolean", value |-> FALSE],
                [type |-> "string", value |-> TRUE] }

resolveRecruitingConfig(raw) ==
  [enabled |-> raw.enabled = BooleanTrue,
   promotion |-> [minProofLinks |-> clampNumber(raw.minProofLinks, 1, 10, 2)],
   identity |-> [minConfidenceForShortlist |->
                    clampNumber(raw.minConfidenceForShortlist, 0, 1000, 800)],
   run |-> [targetCandidatesPerRole |->
              MathTrunc(clampNumber(raw.targetCandidatesPerRole, Tenths(1),
                                    Tenths(2000), Tenths(300)))],
   browserVerification |->
     [enabled |-> raw.browserVerificationEnabled = BooleanTrue,
      mode |-> IF raw.browserVerificationMode = "always" THEN "always"
               ELSE "high_only"]]

\* A tools.recruiting section that sets nothing
RawDefaults == [enabled |-> [type |-> "undefined"], minProofLinks |-> undefined,
                minConfidenceForShortlist |-> undefined,
                targetCandidatesPerRole |-> undefined,
                browserVerificationEnabled |-> [type |-> "undefined"],
                browserVerificationMode |-> ""]

\* run(): input.browserVerificationEnabled ?? recruiting.browserVerification.enabled
browserVerificationEnabledOf(input, config) ==
  IF input.type = "undefined" THEN config.browserVerification.enabled ELSE input.value

\* new CandidatePipelineService(cfg): this.recruiting, nothing started
idleSvc == [pc |-> "idle", key |-> "", runId |-> NoRunId,
            resumed |-> FALSE, result |-> "none", status |-> "none",
            sourced |-> << >>, idx |-> 0, counts |-> emptyCounts,
            accountHealth |-> NoAccount, searched |-> "no", candidateId |-> NULL,
            stageErrors |-> << >>, browserVerificationEnabled |-> FALSE,
            recruiting |-> resolveRecruitingConfig(RawDefaults)]


noCall == [n |-> 0, op |-> "none", candidateId |-> NULL, runId |-> NoRunId,
           arg |-> NULL, links |-> 0, result |-> "none"]

\* No direct store call made: the number of calls, what each returned call was
\* given and returned, and the inputs of the calls that raised
noUpserts == [n |-> 0, returned |-> {}, raised |-> {}]

\* No identity input drawn, nothing resolved
noResolved == [set |-> FALSE]

\* No diagnostics handed to the store
noMarked == [r \in RunIds |-> [set |-> FALSE]]

\* No entry point taken
noEntry == [stage |-> "none"]

\* No search normalised, the caches of a process just started, no web call made
noSearch == [stage |-> "none"]
noWebCall == [phase |-> "none"]
IdleWeb ==
  /\ sourceSearch = noSearch
  /\ SEARCH_CACHE = << >>
  /\ FETCH_CACHE = << >>
  /\ webCall = noWebCall
  /\ webHistory = << >>

\* No run() input drawn
noTarget == [stage |-> "none"]

\* No withRetry call made
noRetry == [call |-> [phase |-> "none"]]

\* No score input drawn, nothing evaluated
noScoring == [params |-> NULL, evaluations |-> << >>]

\* identity.minConfidenceForShortlist as a configuration may set it
RawMinConfidence == {undefined, 0}

\* An empty store, no call made on it
EmptyStore ==
  /\ recruiting = resolveRecruitingConfig(RawDefaults)
  /\ pipeline_runs = {}
  /\ run_failures = [r \in RunIds |-> << >>]
  /\ candidates = {}
  /\ candidate_source_records = {}
  /\ candidate_scores = {}
  /\ candidate_identities = {}
  /\ candidate_evidence_links = {}
  /\ candidate_reviews = {}
  /\ candidate_verifications = << >>
  /\ candidate_promotions = << >>
  /\ uuid = 0
  /\ last = noCall
  /\ upserts = noUpserts
  /\ resolved = noResolved
  /\ marked = noMarked
  /\ now = 0
  /\ retry = noRetry
  /\ target = noTarget
  /\ entryPoint = noEntry
  /\ calls = {}
  /\ candidate_signals = EmptyBag
  /\ IdleWeb
  /\ scoring = noScoring

\* An empty store; each invocation of run() is made on a service of its own,
\* constructed from the configuration of its time
Init ==
  /\ EmptyStore
  /\ \E raw \in [Procs -> RawMinConfidence] :
       svc = [p \in Procs |->
                [idleSvc EXCEPT !.recruiting = resolveRecruitingConfig(
                   [RawDefaults EXCEPT !.minConfidenceForShortlist = raw[p]])]]

\* An empty store and services of the default configuration
InitDefault ==
  /\ EmptyStore
  /\ svc = [p \in Procs |-> idleSvc]

\* ------------------------------------------------------- errors and retries
OK == [type |-> "ok", isTransient |-> FALSE, msg |-> "ok"]
SqliteConstraintError ==
  [type |-> "unknown", isTransient |-> FALSE, msg |-> "UNIQUE constraint failed"]

\* classifyLinkedInError: the classification the LinkedIn client attaches
classifyLinkedInError(err) == [type |-> err.type, isTransient |-> err.isTransient,
                               message |-> err.msg]

isRetryableExternalError(err) == err.msg \in RetryableMessages

PipelineStageError(stage, message, errorType, retryable) ==
  [kind |-> "PipelineStageError", stage |-> stage, message |-> message,
   errorType |-> errorType, retryable |-> retryable]
Thrown(err) ==
  [kind |-> "Error", stage |-> "pipeline_run", message |-> err.msg,
   errorType |-> err.type, retryable |-> err.isTransient, err |-> err]

classifyRunError(e) ==
  IF e.kind = "PipelineStageError"
  THEN [message |-> e.message, errorType |-> e.errorType, retryable |-> e.retryable]
  ELSE IF classifyLinkedInError(e.err).type # "unknown"
       THEN [message |-> classifyLinkedInError(e.err).message,
             errorType |-> classifyLinkedInError(e.err).type,
             retryable |-> classifyLinkedInError(e.err).isTransient]
       ELSE [message |-> e.err.msg, errorType |-> "Error",
             retryable |-> isRetryableExternalError(e.err)]

Retryable(provider, err) ==
  IF provider = "unipile" THEN classifyLinkedInError(err).isTransient
  ELSE isRetryableExternalError(err)

\* What the task does on each of its possible attempts
TaskScripts == [1..DefaultMaxAttempts -> {OK} \cup Errors]

\* withRetry: the loop over attempts; sleeps counts the backoff sleeps taken
RECURSIVE RetryFrom(_, _, _)
RetryFrom(provider, script, attempt) ==
  IF script[attempt] = OK
  THEN [ok |-> TRUE, err |-> OK, attempts |-> attempt, sleeps |-> attempt - 1]
  ELSE IF ~Retryable(provider, script[attempt]) \/ attempt = DefaultMaxAttempts
       THEN [ok |-> FALSE, err |-> script[attempt], attempts |-> attempt,
             sleeps |-> attempt - 1]
       ELSE RetryFrom(provider, script, attempt + 1)

withRetry(provider, script) == RetryFrom(provider, script, 1)

\* What the caller of withRetry sees: the value, or the error thrown
Settled(res) == [ok |-> res.ok, err |-> res.err]
UnipileResults == { withRetry("unipile", s) : s \in TaskScripts }
UnipileSettled == { Settled(r) : r \in UnipileResults }
ExaSettled == { Settled(withRetry("exa", s)) : s \in TaskScripts }

\* withRetry, attempt by attempt. A call in progress: the attempt of the loop,
\* whether its task is running or the backoff sleep, and once settled the
\* error thrown (OK for a value returned).
Providers == {"unipile", "exa"}

\* Math.random(), in thousandths
Randoms == {0, 500, 999}

\* jitter: baseMs + floor(random * max(200, floor(baseMs * 0.4)))
jitter(baseMs, random) ==
  baseMs + (random * (IF (baseMs * 4) \div 10 > 200 THEN (baseMs * 4) \div 10
                      ELSE 200)) \div 1000

\* withRetry entered: attempt 1, params.task() invoked
startRetry(provider) ==
  [provider |-> provider, attempt |-> 1, phase |-> "task", err |-> OK]

\* Variant: a failure is retried whatever its classification
taskSettlesRetryingAll(call, outcome) ==
  IF outcome = OK THEN [call EXCEPT !.phase = "resolved"]
  ELSE IF call.attempt = DefaultMaxAttempts
  THEN [call EXCEPT !.phase = "rejected", !.err = outcome]
  ELSE [call EXCEPT !.phase = "sleep"]

\* The loop body once the task has settled: return its value, or in the catch
\* throw the error, or go to sleep
taskSettles(call, outcome) ==
  IF outcome = OK THEN [call EXCEPT !.phase = "resolved"]
  ELSE IF ~Retryable(call.provider, outcome) \/ call.attempt = DefaultMaxAttempts
  THEN [call EXCEPT !.phase = "rejected", !.err = outcome]
  ELSE [call EXCEPT !.phase = "sleep"]

\* await sleep(jitter(baseDelayMs * attempt)): the delay asked of setTimeout
sleepFor(call, random) == jitter(DefaultBaseDelayMs * call.attempt, random)

\* The sleep over: the next pass of the loop, params.task() invoked again
sleepEnds(call) == [call EXCEPT !.attempt = @ + 1, !.phase = "task"]

\* ------------------------------------------------------------ store: runs
\* A diagnostics object holds every property; one that is undefined holds
\* NoFailure (failure) or NULL (the optional strings of searchQueryUsed).
OptionalKeys == {"keywords", "location", "industry"}
IsUndefined(key, value) ==
  \/ (key = "failure" /\ value = NoFailure)
  \/ (key \in OptionalKeys /\ value = NULL)
Undefined(key) == IF key = "failure" THEN NoFailure ELSE NULL

\* An object without its undefined properties
dropUndefined(object) ==
  [key \in { k \in DOMAIN object : ~IsUndefined(k, object[k]) } |-> object[key]]

\* Variant: the failure block is not written
JSONstringifyWithoutFailure(value) ==
  LET top == dropUndefined(value)
  IN [key \in DOMAIN top \ {"failure"} |->
        IF key = "searchQueryUsed" THEN dropUndefined(top[key]) ELSE top[key]]

\* JSON.stringify: the text of an object names its defined properties only
JSONstringify(value) ==
  LET top == dropUndefined(value)
  IN [key \in DOMAIN top |->
        IF key = "searchQueryUsed" THEN dropUndefined(top[key]) ELSE top[key]]

\* A summary_json column: SQL NULL, or a JSON text
SqlNull == [null |-> TRUE]
\* An INTEGER column that holds a number
SqlInteger(n) == [null |-> FALSE, value |-> n]
JsonText(text) == [null |-> FALSE, json |-> text]

\* parseJson: the fallback unless raw is a string; JSON.parse gives the object
\* the text names, an object that lacks the properties left out
parseJson(raw, fallback) == IF raw.null THEN fallback ELSE raw.json

\* obj?.key: undefined when obj is undefined or lacks the property
Prop(object, key) == IF key \in DOMAIN object THEN object[key] ELSE Undefined(key)

\* The value undefined where an object is expected
undefinedObject == << >>

\* Variant: the UPDATE names no run
UpdateRunEveryRow(rows, runId, status, summary) ==
  { [r EXCEPT !.status = status, !.finished_at = SqlInteger(now),
              !.summary = JsonText(JSONstringify(summary))]
    : r \in rows }

\* UPDATE pipeline_runs SET status, finished_at, summary_json WHERE id = runId
UpdateRun(rows, runId, status, summary) ==
  { IF r.id = runId
    THEN [r EXCEPT !.status = status, !.finished_at = SqlInteger(now),
                   !.summary = JsonText(JSONstringify(summary))]
    ELSE r
    : r \in rows }

markRunCompleted(rows, runId, summary) == UpdateRun(rows, runId, "completed", summary)
markRunFailed(rows, runId, summary) == UpdateRun(rows, runId, "failed", summary)

recordFailure(rows, runId, step, candidateRef, errorType, retryable) ==
  [rows EXCEPT ![runId] =
     Append(@, [run_id |-> runId, step |-> step, candidate_ref |-> candidateRef,
                error_type |-> errorType, retryable |-> retryable])]

\* Variant: every run found is reported as running
getRunStatusRunning(rows, runId) ==
  IF \E r \in rows : r.id = runId
  THEN LET row == CHOOSE r \in rows : r.id = runId
       IN [runId |-> row.id, status |-> "running", finishedAt |-> row.finished_at,
           diagnostics |-> parseJson(row.summary, undefinedObject)]
  ELSE [runId |-> NoRunId, status |-> "null", finishedAt |-> SqlNull,
        diagnostics |-> undefinedObject]

\* getRunStatus: null for an unknown run, else the row with its parsed summary
getRunStatus(rows, runId) ==
  IF \E r \in rows : r.id = runId
  THEN LET row == CHOOSE r \in rows : r.id = runId
       IN [runId |-> row.id, status |-> row.status, finishedAt |-> row.finished_at,
           diagnostics |-> parseJson(row.summary, undefinedObject)]
  ELSE [runId |-> NoRunId, status |-> "null", finishedAt |-> SqlNull,
        diagnostics |-> undefinedObject]

\* LIMIT n
Limit(rows, n) == SubSeq(rows, 1, IF Len(rows) < n THEN Len(rows) ELSE n)

\* upsertStageError: the Map of stages, each a Map of `${errorType}:${message}`
\* keys to counts, both in insertion order
upsertStageError(map, stage, message, errorType) ==
  LET at(entries) == { i \in DOMAIN entries : /\ entries[i].message = message
                                              /\ entries[i].errorType = errorType }
      bump(entries) ==
        IF at(entries) # {}
        THEN [entries EXCEPT ![CHOOSE i \in at(entries) : TRUE].count = @ + 1]
        ELSE Append(entries, [message |-> message, errorType |-> errorType, count |-> 1])
      stages == { i \in DOMAIN map : map[i].stage = stage }
  IN IF stages # {}
     THEN [map EXCEPT ![CHOOSE i \in stages : TRUE].entries = bump(@)]
     ELSE Append(map, [stage |-> stage, entries |-> bump(<< >>)])

\* toSorted((a, b) => b.count - a.count): descending by count, stable: an item
\* comes after those of a greater count and the earlier ones of its own count
toSortedByCount(items) ==
  LET rank(i) == 1 + Cardinality({ j \in DOMAIN items :
                                     \/ items[j].count > items[i].count
                                     \/ items[j].count = items[i].count /\ j < i })
  IN [k \in DOMAIN items |-> items[CHOOSE i \in DOMAIN items : rank(i) = k]]

\* messages.reduce((sum, item) => sum + item.count, 0) over the slice(0, 3)
SumOfCounts(messages) ==
  (IF Len(messages) >= 1 THEN messages[1].count ELSE 0)
    + (IF Len(messages) >= 2 THEN messages[2].count ELSE 0)
    + (IF Len(messages) >= 3 THEN messages[3].count ELSE 0)

\* buildStageErrors: per stage the three most frequent messages and the sum of
\* their counts, the stages by that count
buildStageErrors(map) ==
  toSortedByCount(
    [i \in DOMAIN map |->
       [stage |-> map[i].stage,
        count |-> SumOfCounts(Limit(toSortedByCount(map[i].entries), 3)),
        topMessages |-> Limit(toSortedByCount(map[i].entries), 3)]])

buildDiagnostics(counts, stageErrors, failure, accountHealth) ==
  [counts |-> counts, errorsByStage |-> buildStageErrors(stageErrors),
   failure |-> failure, accountHealth |-> accountHealth]

\* Variant: only a completed run is resumed
ResumableCompletedOnly(status) == status = "completed"

\* beginRun resumes a run found in one of these statuses
Resumable(status) == status \in {"running", "completed"}

\* ------------------------------------------------------------ run(): begin
\* run(): Math.max(1, Math.trunc(role.targetCandidates ?? targetCandidatesPerRole))
targetCandidatesOf(roleTarget, config) ==
  MathMax(Tenths(1), MathTrunc(IF roleTarget = undefined
                               THEN config.run.targetCandidatesPerRole
                               ELSE roleTarget))

\* buildIdempotencyKey: `${roleKey}:${targetCandidates}:${date}`
buildIdempotencyKey(roleKey, targetCandidates, date) ==
  <<roleKey, targetCandidates, date>>

\* beginRun, first statement: the lookup by idempotency key
BeginRunSelect(p, key) ==
  /\ svc[p].pc = "idle"
  /\ LET existing == { r \in pipeline_runs : key # "" /\ r.idempotency_key = key }
         hit == { r \in existing : Resumable(r.status) }
     IN IF hit # {}
        THEN \E r \in hit :
               svc' = [svc EXCEPT ![p] = [@ EXCEPT !.pc = "done", !.key = key,
                         !.runId = r.id, !.resumed = TRUE,
                         !.result = "returned",
                         !.status = getRunStatus(pipeline_runs, r.id).status]]
        ELSE svc' = [svc EXCEPT ![p] = [@ EXCEPT !.pc = "insert", !.key = key]]
  /\ UNCHANGED <<storeVars, workflowVars, libVars, uuid>>

\* beginRun, second statement: INSERT INTO pipeline_runs (id PRIMARY KEY,
\* idempotency_key UNIQUE); a constraint failure propagates out of run()
BeginRunInsert(p) ==
  /\ svc[p].pc = "insert"
  /\ LET runId == uuid + 1
         conflict == \E r \in pipeline_runs :
                        r.id = runId \/ r.idempotency_key = svc[p].key
     IN /\ uuid' = uuid + 1
        /\ IF conflict
           THEN /\ svc' = [svc EXCEPT ![p] = [@ EXCEPT !.pc = "done", !.result = "raised"]]
                /\ UNCHANGED pipeline_runs
           ELSE /\ pipeline_runs' = pipeline_runs \cup
                     { [id |-> runId, idempotency_key |-> svc[p].key,
                        status |-> "running", summary |-> SqlNull,
                        finished_at |-> SqlNull] }
                /\ svc' = [svc EXCEPT ![p] = [@ EXCEPT !.pc = "preflight",
                                                !.runId = runId, !.resumed = FALSE]]
  /\ UNCHANGED <<run_failures, candidates, candidate_source_records, candidate_scores,
                 candidate_identities, candidate_evidence_links,
                 workflowVars, libVars>>

\* The outer catch of run(): classify, persistFailure, markRunFailed, return.
\* rec is the invocation's record as the failing step leaves it.
FailRun(p, rec, e) ==
  LET info == classifyRunError(e)
      stage == IF e.kind = "PipelineStageError" THEN e.stage ELSE "pipeline_run"
      stageErrors == upsertStageError(rec.stageErrors, stage, info.message,
                                      info.errorType)
  IN /\ run_failures' = recordFailure(run_failures, rec.runId, stage, NULL,
                                      info.errorType, info.retryable)
     /\ pipeline_runs' = markRunFailed(pipeline_runs, rec.runId,
          buildDiagnostics(rec.counts, stageErrors,
                           [stage |-> stage, errorType |-> info.errorType],
                           rec.accountHealth))
     /\ svc' = [svc EXCEPT ![p] = [rec EXCEPT !.pc = "done", !.result = "returned",
                  !.status = getRunStatus(pipeline_runs', rec.runId).status]]

\* resolveLinkedInAccount: what the account resolver returns
Accounts == [enabled : BOOLEAN, missingCredentials : SUBSET {"api_key"}]

\* buildClientOptions: no client options when credentials are missing
buildClientOptions(account) ==
  IF account.missingCredentials = {} THEN "clientOpts" ELSE NULL

\* getMissingCredentials and the accountHealth block of the diagnostics
accountHealth(account) ==
  [enabled |-> account.enabled, missingCredentials |-> account.missingCredentials,
   recruiterReady |-> account.enabled /\ account.missingCredentials = {},
   resolved |-> TRUE]
ReadyAccount == [enabled |-> TRUE, missingCredentials |-> {}]

\* Variant: no preflight check, the run goes on to the search
PreflightUnchecked(p, account) ==
  /\ svc[p].pc = "preflight"
  /\ svc' = [svc EXCEPT ![p] = [@ EXCEPT !.accountHealth = accountHealth(account),
                                          !.pc = "search"]]
  /\ UNCHANGED <<storeVars, workflowVars, libVars, uuid>>

\* run(): account resolution and the preflight checks, up to the call of
\* searchTalent
Preflight(p, account) ==
  /\ svc[p].pc = "preflight"
  /\ LET rec == [svc[p] EXCEPT !.accountHealth = accountHealth(account)]
     IN IF ~account.enabled
        THEN FailRun(p, rec, PipelineStageError("linkedin_preflight",
                          "LinkedIn integration is disabled for the resolved account.",
                          "auth", FALSE))
        ELSE IF buildClientOptions(account) = NULL
        THEN FailRun(p, rec, PipelineStageError("linkedin_preflight",
                               "LinkedIn credentials missing", "auth", FALSE))
        ELSE /\ svc' = [svc EXCEPT ![p] = [rec EXCEPT !.pc = "search"]]
             /\ UNCHANGED <<pipeline_runs, run_failures>>
  /\ UNCHANGED <<candidates, candidate_source_records, candidate_scores,
                 candidate_identities, candidate_evidence_links,
                 workflowVars, libVars, uuid>>

\* ------------------------------------------------------ store: candidates
Lower(c) == IF c = "L" THEN "l" ELSE c

RECURSIVE TrimLeft(_)
TrimLeft(s) == IF s # << >> /\ Head(s) = " " THEN TrimLeft(Tail(s)) ELSE s
RECURSIVE TrimRight(_)
TrimRight(s) ==
  IF s # << >> /\ s[Len(s)] = " " THEN TrimRight(SubSeq(s, 1, Len(s) - 1)) ELSE s
RECURSIVE BeforeQuery(_)
BeforeQuery(s) ==
  IF s = << >> \/ Head(s) = "?" THEN << >> ELSE <<Head(s)>> \o BeforeQuery(Tail(s))

\* normalizeProfileUrl: trim, lowercase, drop the query, drop one trailing slash;
\* the empty sequence is null
normalizeProfileUrl(value) ==
  LET trimmed == [i \in 1..Len(TrimRight(TrimLeft(value))) |->
                    Lower(TrimRight(TrimLeft(value))[i])]
      withoutQuery == BeforeQuery(trimmed)
  IN IF withoutQuery # << >> /\ withoutQuery[Len(withoutQuery)] = "/"
     THEN SubSeq(withoutQuery, 1, Len(withoutQuery) - 1)
     ELSE withoutQuery

\* hashUrl: SHA-256, a digest named by its preimage
NoHash == << >>
hashUrl(value) == <<"sha256", value>>

buildCandidateId(providerId, publicIdentifier, urlHash, fresh) ==
  IF providerId # NULL THEN <<"li", providerId>>
  ELSE IF publicIdentifier # NULL THEN <<"li_pub", publicIdentifier>>
  ELSE IF urlHash # NoHash THEN <<"li_url", urlHash>>
  ELSE <<"li_rand", fresh>>

\* upsertCandidate: SELECT ... LIMIT 1 over the three keys, then INSERT ... ON
\* CONFLICT(id) DO UPDATE. Which matching row LIMIT 1 returns is the engine's
\* choice; a UNIQUE failure on another row throws and writes nothing.
upsertCandidate(rows, input, fresh) ==
  LET normalized == normalizeProfileUrl(input.profile_url)
      urlHash == IF normalized # << >> THEN hashUrl(normalized) ELSE NoHash
      matching == { r \in rows :
                      \/ (input.provider_id # NULL /\ r.provider_id = input.provider_id)
                      \/ (input.public_identifier # NULL
                            /\ r.public_identifier = input.public_identifier)
                      \/ (urlHash # NoHash /\ r.normalized_profile_url_hash = urlHash) }
      ids == IF matching = {}
             THEN { buildCandidateId(input.provider_id, input.public_identifier,
                                     urlHash, fresh) }
             ELSE { r.id : r \in matching }
      row(id) == [id |-> id, provider_id |-> input.provider_id,
                  public_identifier |-> input.public_identifier,
                  normalized_profile_url_hash |-> urlHash]
      clash(id) == \E r \in rows :
                     /\ r.id # id
                     /\ \/ (input.provider_id # NULL /\ r.provider_id = input.provider_id)
                        \/ (input.public_identifier # NULL
                              /\ r.public_identifier = input.public_identifier)
                        \/ (urlHash # NoHash /\ r.normalized_profile_url_hash = urlHash)
  IN { IF clash(id)
       THEN [ok |-> FALSE, rows |-> rows, candidateId |-> id]
       ELSE [ok |-> TRUE, rows |-> { r \in rows : r.id # id } \cup { row(id) },
             candidateId |-> id]
       : id \in ids }

\* addSourceRecord: INSERT OR IGNORE on (candidate, run, source, rank)
addSourceRecord(rows, candidateId, runId, sourceRank) ==
  rows \cup { [candidate_id |-> candidateId, run_id |-> runId,
               source |-> "linkedin.search", source_rank |-> sourceRank] }

\* upsertIdentity: ON CONFLICT(candidate_id, platform) DO UPDATE
upsertIdentity(rows, candidateId, platform, handle, url, resolution) ==
  { r \in rows : ~(r.candidate_id = candidateId /\ r.platform = platform) }
    \cup { [candidate_id |-> candidateId, platform |-> platform, handle |-> handle,
             url |-> url, confidence |-> resolution.confidence,
             band |-> resolution.band, reasons |-> resolution.reasons,
             confirmed |-> IF resolution.shortlistEligible THEN 1 ELSE 0] }

\* upsertScore: ON CONFLICT(candidate_id, run_id) DO UPDATE
upsertScore(rows, candidateId, runId, score) ==
  { r \in rows : ~(r.candidate_id = candidateId /\ r.run_id = runId) }
    \cup { [candidate_id |-> candidateId, run_id |-> runId,
             total_score |-> score.total,
             shortlist_eligible |-> IF score.shortlistEligible THEN 1 ELSE 0] }

\* addEvidenceLinks: one INSERT OR IGNORE per link, in order, inside a
\* transaction; UNIQUE(candidate_id, run_id, url), id AUTOINCREMENT, created_at
\* the Date.now() read before the loop
RECURSIVE addEvidenceLinks(_, _, _, _, _)
addEvidenceLinks(rows, candidateId, runId, links, createdAt) ==
  IF links = << >> THEN rows
  ELSE LET link == Head(links)
           ignored == \E r \in rows : /\ r.candidate_id = candidateId
                                        /\ r.run_id = runId
                                        /\ r.url = link.url
           inserted == rows \cup { [id |-> Cardinality(rows) + 1,
                                     candidate_id |-> candidateId, run_id |-> runId,
                                     url |-> link.url, source |-> link.source,
                                     relevance |-> link.relevance,
                                     created_at |-> createdAt] }
       IN addEvidenceLinks(IF ignored THEN rows ELSE inserted,
                           candidateId, runId, Tail(links), createdAt)

\* ------------------------------------------------------------------ scoring
\* Numbers are thousandths (0.25 is 250), a product of two is in millionths.
WEIGHTS ==
  [builder_activity |-> 250, ai_native_evidence |-> 250, technical_depth |-> 200,
   role_fit |-> 200, identity_confidence |-> 100]

clamp01(value) ==
  IF value = NaN THEN 0
  ELSE IF value < 0 THEN 0 ELSE IF value > 1000 THEN 1000 ELSE value

\* round3: Math.round(value * 1000) / 1000, of a value in millionths
round3(value) == (value + 500) \div 1000

Max(S) == CHOOSE x \in S : \A y \in S : y <= x

scoreFromSignals(signals, key) ==
  LET values == { x.numericValue :
                    x \in { y \in signals : y.key = key /\ y.numericValue # NaN } }
  IN IF values = {} THEN 0 ELSE clamp01(Max(values))

AiKeywords == {"codex", "claude code", "mcp", "agent", "agents", "automation"}
LowerWord(w) == IF w = "MCP" THEN "mcp" ELSE w

\* hasAiEvidence: a keyword occurs in `${title} ${url}`.toLowerCase()
hasAiEvidence(evidence) ==
  \E item \in evidence :
    \E i \in 1..Len(item.title \o item.url) :
      LowerWord((item.title \o item.url)[i]) \in AiKeywords

\* Variant: identity_confidence weighs as much as role_fit
weightedSumHeavyIdentity(breakdown) ==
  breakdown.builder_activity * WEIGHTS.builder_activity
    + breakdown.ai_native_evidence * WEIGHTS.ai_native_evidence
    + breakdown.technical_depth * WEIGHTS.technical_depth
    + breakdown.role_fit * WEIGHTS.role_fit
    + breakdown.identity_confidence * WEIGHTS.role_fit

\* The weighted sum of the breakdown, exactly (millionths)
weightedSum(breakdown) ==
  breakdown.builder_activity * WEIGHTS.builder_activity
    + breakdown.ai_native_evidence * WEIGHTS.ai_native_evidence
    + breakdown.technical_depth * WEIGHTS.technical_depth
    + breakdown.role_fit * WEIGHTS.role_fit
    + breakdown.identity_confidence * WEIGHTS.identity_confidence

\* The breakdowns (builder_activity, ai_native_evidence, technical_depth,
\* role_fit, identity_confidence) of the inputs below whose weighted sum is an
\* exact half thousandth and whose sum of products in IEEE-754 doubles, times
\* 1000, is below that half
SumBelowTie ==
  {
    <<250, 0, 0, 600, 950>>,
    <<250, 0, 250, 300, 950>>,
    <<250, 0, 250, 600, 0>>,
    <<250, 300, 250, 600, 950>>,
    <<250, 700, 0, 300, 950>>,
    <<250, 700, 250, 0, 950>>,
    <<250, 700, 250, 600, 950>>,
    <<250, 1000, 0, 600, 700>>,
    <<750, 0, 0, 600, 950>>,
    <<750, 0, 250, 300, 950>>,
    <<750, 300, 250, 600, 700>>,
    <<750, 700, 250, 0, 950>>,
    <<750, 700, 250, 600, 700>>,
    <<750, 1000, 0, 0, 700>>,
    <<750, 1000, 250, 300, 700>>,
    <<750, 1000, 250, 600, 0>>,
    <<750, 1000, 250, 600, 700>>,
    <<750, 1000, 250, 600, 950>> }
\* The weighted sum as the double arithmetic leaves it before Math.round
doubleSum(breakdown) ==
  IF <<breakdown.builder_activity, breakdown.ai_native_evidence,
       breakdown.technical_depth, breakdown.role_fit,
       breakdown.identity_confidence>> \in SumBelowTie
  THEN weightedSum(breakdown) - 1
  ELSE weightedSum(breakdown)

OutreachAi == "Lead with AI-native shipping evidence and ask about current build velocity."
OutreachBuilder == "Lead with recent shipped work and invite a builder-focused conversation."
OutreachRoleFit == "Lead with role fit and verify current hands-on project scope."

\* Variant: the open-to-work concern is recorded first
concernsOfOpenToWorkFirst(params, breakdown) ==
  (IF params.openToWork = TRUE
     THEN <<"open_to_work_signal_recorded_no_penalty">> ELSE << >>)
  \o (IF ~params.identity.shortlistEligible THEN <<"identity_unconfirmed">> ELSE << >>)
  \o (IF breakdown.builder_activity < 300
        THEN <<"low_recent_builder_activity">> ELSE << >>)
  \o (IF breakdown.ai_native_evidence < 300
        THEN <<"limited_ai_native_evidence">> ELSE << >>)
  \o (IF breakdown.role_fit < 300 THEN <<"weak_role_fit">> ELSE << >>)

\* computeCandidateScore: the concerns, in the order they are pushed
concernsOf(params, breakdown) ==
  (IF ~params.identity.shortlistEligible THEN <<"identity_unconfirmed">> ELSE << >>)
  \o (IF breakdown.builder_activity < 300
        THEN <<"low_recent_builder_activity">> ELSE << >>)
  \o (IF breakdown.ai_native_evidence < 300
        THEN <<"limited_ai_native_evidence">> ELSE << >>)
  \o (IF breakdown.role_fit < 300 THEN <<"weak_role_fit">> ELSE << >>)
  \o (IF params.openToWork = TRUE
        THEN <<"open_to_work_signal_recorded_no_penalty">> ELSE << >>)

\* Variant: the outreach angle alternates with the evaluations made so far
computeCandidateScoreAlternating(params) ==
  [total |-> 0, shortlistEligible |-> params.identity.shortlistEligible,
   breakdown |-> [builder_activity |-> 0, ai_native_evidence |-> 0,
                  technical_depth |-> 0, role_fit |-> 0, identity_confidence |-> 0],
   concerns |-> << >>,
   outreachAngle |-> IF Len(scoring.evaluations) = 0 THEN OutreachAi ELSE OutreachRoleFit]

computeCandidateScore(params) ==
  LET builderActivity == scoreFromSignals(params.signals, "builder_activity")
      aiNative == Max({ scoreFromSignals(params.signals, "ai_native_evidence"),
                        IF hasAiEvidence(params.evidence) THEN 700 ELSE 0 })
      technicalDepth == scoreFromSignals(params.signals, "technical_depth")
      roleFit == scoreFromSignals(params.signals, "role_fit")
      identityConfidence == clamp01(params.identity.confidence)
      breakdown == [builder_activity |-> round3(builderActivity * 1000),
                    ai_native_evidence |-> round3(aiNative * 1000),
                    technical_depth |-> round3(technicalDepth * 1000),
                    role_fit |-> round3(roleFit * 1000),
                    identity_confidence |-> round3(identityConfidence * 1000)]
  IN [total |-> round3(doubleSum(breakdown)),
      shortlistEligible |-> params.identity.shortlistEligible,
      breakdown |-> breakdown,
      concerns |-> concernsOf(params, breakdown),
      outreachAngle |->
        IF breakdown.ai_native_evidence >= 600 THEN OutreachAi
        ELSE IF breakdown.builder_activity >= 600 THEN OutreachBuilder
        ELSE OutreachRoleFit]

\* ----------------------------------------------------------- store: results
\* The results of a SELECT ... ORDER BY: every sequence that holds each row of S
\* once, each row and the next a pair of inOrder; rows the order does not tell
\* apart come in the order the engine chooses
Orderings(S, inOrder) ==
  { f \in [1..Cardinality(S) -> S] :
      /\ \A i, j \in DOMAIN f : i # j => f[i] # f[j]
      /\ \A i \in DOMAIN f : i + 1 \in DOMAIN f => <<f[i], f[i + 1]>> \in inOrder }

\* ORDER BY relevance DESC, created_at DESC; a NULL relevance sorts below
\* every number, as undefined is below every relevance here
evidenceOrder(S) ==
  { pair \in S \X S :
      \/ pair[1].relevance > pair[2].relevance
      \/ /\ pair[1].relevance = pair[2].relevance
         /\ pair[1].created_at >= pair[2].created_at }

\* ORDER BY total_score DESC
scoreOrder(S) == { pair \in S \X S : pair[1].total_score >= pair[2].total_score }

\* Variant: the evidence query without its LIMIT
topEvidenceUnlimited(links, candidateId, runId) ==
  { [i \in DOMAIN o |-> [url |-> o[i].url, source |-> o[i].source,
                         relevance |-> o[i].relevance]]
    : o \in Orderings({ l \in links : l.candidate_id = candidateId /\ l.run_id = runId },
                      evidenceOrder({ l \in links : /\ l.candidate_id = candidateId
                                                    /\ l.run_id = runId })) }

\* getResults, the evidence query of a row: what it may return
topEvidenceOf(links, candidateId, runId) ==
  { [i \in DOMAIN Limit(o, 3) |-> [url |-> o[i].url, source |-> o[i].source,
                                   relevance |-> o[i].relevance]]
    : o \in Orderings({ l \in links : l.candidate_id = candidateId /\ l.run_id = runId },
                      evidenceOrder({ l \in links : /\ l.candidate_id = candidateId
                                                    /\ l.run_id = runId })) }

\* getResults(runId, limit): the results it may return in the current state
getResults(runId, limit) ==
  LET runMeta == { r \in pipeline_runs : r.id = runId }
      diagnostics == IF runMeta = {} THEN undefinedObject
                     ELSE parseJson((CHOOSE r \in runMeta : TRUE).summary,
                                    undefinedObject)
      joined == { x \in candidate_scores :
                    /\ x.run_id = runId
                    /\ \E c \in candidates : c.id = x.candidate_id }
      identityOfRow(row) == { i \in candidate_identities :
                                /\ i.candidate_id = row.candidate_id
                                /\ i.platform = "cross_platform" }
      item(row, evidence) ==
        [candidateId |-> row.candidate_id,
         totalScore |-> row.total_score,
         shortlistEligible |-> row.shortlist_eligible = 1,
         identityBand |-> IF identityOfRow(row) = {} THEN "LOW"
                          ELSE (CHOOSE i \in identityOfRow(row) : TRUE).band,
         identityConfidence |-> IF identityOfRow(row) = {} THEN 0
                                ELSE (CHOOSE i \in identityOfRow(row) : TRUE).confidence,
         topEvidence |-> evidence]
      itemsOf(rows) ==
        { [i \in DOMAIN rows |-> item(rows[i], evidence[i])]
          : evidence \in
              { e \in [DOMAIN rows ->
                         UNION { topEvidenceOf(candidate_evidence_links,
                                               rows[i].candidate_id, runId)
                                 : i \in DOMAIN rows }] :
                  \A i \in DOMAIN rows :
                    e[i] \in topEvidenceOf(candidate_evidence_links,
                                           rows[i].candidate_id, runId) } }
      result(items) ==
        LET shortlist == SelectSeq(items, LAMBDA it : it.shortlistEligible)
            reviewQueue == SelectSeq(items, LAMBDA it : ~it.shortlistEligible)
        IN [runId |-> runId,
            shortlist |-> shortlist,
            reviewQueue |-> reviewQueue,
            meta |-> [totalCandidates |-> Len(items),
                      shortlistCount |-> Len(shortlist),
                      reviewCount |-> Len(reviewQueue),
                      counts |-> Prop(diagnostics, "counts"),
                      errorsByStage |-> Prop(diagnostics, "errorsByStage"),
                      searchQueryUsed |-> Prop(diagnostics, "searchQueryUsed"),
                      modes |-> Prop(diagnostics, "modes"),
                      accountHealth |-> Prop(diagnostics, "accountHealth"),
                      failure |-> Prop(diagnostics, "failure")]]
  IN { result(items) :
         items \in UNION { itemsOf(Limit(o, IF limit < 1 THEN 1 ELSE limit))
                           : o \in Orderings(joined, scoreOrder(joined)) } }

\* ----------------------------------------------------------------- identity
\* A string is a sequence of characters; null, undefined and "" are << >>.
LowerText(s) == [i \in 1..Len(s) |-> Lower(s[i])]
Trim(s) == TrimRight(TrimLeft(s))

\* normalizeUrl: trim, lowercase, drop one trailing slash
normalizeUrl(value) ==
  LET trimmed == LowerText(Trim(value))
  IN IF trimmed # << >> /\ trimmed[Len(trimmed)] = "/"
     THEN SubSeq(trimmed, 1, Len(trimmed) - 1)
     ELSE trimmed

includesLinkedinUrl(value, linkedinUrl) ==
  /\ value # << >>
  /\ linkedinUrl # << >>
  /\ normalizeUrl(value) = linkedinUrl

resolveBand(confidence) ==
  IF confidence >= 900 THEN "CONFIRMED"
  ELSE IF confidence >= 800 THEN "HIGH"
  ELSE IF confidence >= 600 THEN "MEDIUM"
  ELSE "LOW"

\* The else-if of rule 3 taken whenever its own condition holds
partialContextAlways(sameEmployer, sameLocation, handlePatternMatch) ==
  (sameEmployer /\ sameLocation) \/ (sameEmployer /\ handlePatternMatch)

\* Rule 3's else-if branch: the partial match, only when the full one fails
partialContext(sameEmployer, sameLocation, handlePatternMatch) ==
  /\ ~(sameEmployer /\ sameLocation /\ handlePatternMatch)
  /\ (sameEmployer /\ sameLocation) \/ (sameEmployer /\ handlePatternMatch)

resolveIdentity(input) ==
  LET linkedinUrl == normalizeUrl(input.linkedin.profileUrl)
      githubLinkedin == normalizeUrl(input.github.profileLinkedinUrl)
      xLinkedin == normalizeUrl(input.x.profileLinkedinUrl)
      siteLinkedin == normalizeUrl(input.personalSite.linkedinUrl)
      rule1 == \/ includesLinkedinUrl(githubLinkedin, linkedinUrl)
               \/ includesLinkedinUrl(xLinkedin, linkedinUrl)
               \/ includesLinkedinUrl(siteLinkedin, linkedinUrl)
      score1 == IF rule1 THEN Max({0, 950}) ELSE 0
      githubUrl == normalizeUrl(input.github.url)
      xUrl == normalizeUrl(input.x.url)
      siteGithub == normalizeUrl(input.personalSite.githubUrl)
      siteX == normalizeUrl(input.personalSite.xUrl)
      rule2 == /\ linkedinUrl # << >>
               /\ \/ (githubUrl # << >> /\ siteGithub = githubUrl)
                  \/ (xUrl # << >> /\ siteX = xUrl)
      score2 == IF rule2 THEN Max({score1, 900}) ELSE score1
      sameEmployer ==
        /\ input.linkedin.employer # << >>
        /\ input.github.employer # << >>
        /\ LowerText(Trim(input.linkedin.employer))
             = LowerText(Trim(input.github.employer))
      sameLocation ==
        /\ input.linkedin.location # << >>
        /\ input.github.location # << >>
        /\ LowerText(Trim(input.linkedin.location))
             = LowerText(Trim(input.github.location))
      handlePatternMatch ==
        /\ Trim(input.github.handle) # << >>
        /\ Trim(input.x.handle) # << >>
        /\ LowerText(Trim(input.github.handle)) = LowerText(Trim(input.x.handle))
      full == sameEmployer /\ sameLocation /\ handlePatternMatch
      partial == partialContext(sameEmployer, sameLocation, handlePatternMatch)
      score3 == IF full THEN Max({score2, 820}) ELSE score2
      score == IF partial THEN Max({score3, 700}) ELSE score3
      reasons ==
        (IF rule1 THEN <<"direct_profile_link">> ELSE << >>)
          \o (IF rule2 THEN <<"reverse_link_via_site">> ELSE << >>)
          \o (IF full THEN <<"strong_context_employer_location_handle">> ELSE << >>)
          \o (IF partial THEN <<"context_partial_match">> ELSE << >>)
          \o (IF score = 0 THEN <<"unconfirmed_no_strong_match">> ELSE << >>)
      \* Math.round(score * 1000) / 1000, the score being in thousandths
      confidence == round3(score * 1000)
      band == resolveBand(confidence)
  IN [confidence |-> confidence,
      band |-> band,
      shortlistEligible |-> band = "CONFIRMED" \/ band = "HIGH",
      reasons |-> reasons]

\* ----------------------------------------------------- run(): source, enrich
\* Variant: run() returns after the last candidate without markRunCompleted
AdvanceUnmarked(p, rec, failures) ==
  /\ run_failures' = failures
  /\ IF rec.idx = Len(rec.sourced)
     THEN /\ svc' = [svc EXCEPT ![p] = [rec EXCEPT !.pc = "done", !.result = "returned",
                       !.status = getRunStatus(pipeline_runs, rec.runId).status]]
          /\ UNCHANGED pipeline_runs
     ELSE /\ svc' = [svc EXCEPT ![p] = [rec EXCEPT !.pc = "upsert", !.idx = rec.idx + 1]]
          /\ UNCHANGED pipeline_runs

\* After a candidate: the next one, or markRunCompleted and return
Advance(p, rec, failures) ==
  /\ run_failures' = failures
  /\ \E r \in {rec} :
       IF r.idx = Len(r.sourced)
       THEN /\ pipeline_runs' = markRunCompleted(pipeline_runs, r.runId,
                                   buildDiagnostics(r.counts, r.stageErrors, NoFailure,
                                                    r.accountHealth))
            /\ svc' = [svc EXCEPT ![p] = [r EXCEPT !.pc = "done", !.result = "returned",
                         !.status = getRunStatus(pipeline_runs', r.runId).status]]
       ELSE /\ svc' = [svc EXCEPT ![p] = [r EXCEPT !.pc = "upsert", !.idx = r.idx + 1]]
            /\ UNCHANGED pipeline_runs

\* Variant: a candidate's error ends the run
CandidateCatchFatal(p, rec, e) == FailRun(p, rec, e)

\* Variant: the catch leaves enrichFailed as it is
CandidateCatchUncounted(p, rec, e) ==
  LET info == classifyRunError(e)
  IN Advance(p, [rec EXCEPT !.stageErrors = upsertStageError(@, "candidate_enrich_score",
                                              info.message, info.errorType)],
             recordFailure(run_failures, rec.runId, "candidate_enrich_score",
                           rec.sourced[rec.idx].provider_id, info.errorType,
                           info.retryable))

\* The per-candidate catch: enrichFailed, persistFailure, on to the next candidate
CandidateCatch(p, rec, e) ==
  LET info == classifyRunError(e)
  IN Advance(p, [rec EXCEPT !.counts.enrichFailed = @ + 1,
                            !.stageErrors = upsertStageError(@, "candidate_enrich_score",
                                              info.message, info.errorType)],
             recordFailure(run_failures, rec.runId, "candidate_enrich_score",
                           rec.sourced[rec.idx].provider_id, info.errorType,
                           info.retryable))

SearchResults(n) ==
  { [success |-> FALSE, error |-> e, candidates |-> << >>] : e \in Errors }
    \cup { [success |-> TRUE, error |-> OK, candidates |-> c]
           : c \in SeqsUpTo(CandPool, n) }

\* Variant: a search result with success = false is taken as an empty list
SearchIgnoringSuccess(p, res, searchResult) ==
  /\ svc[p].pc = "search"
  /\ IF ~res.ok
     THEN FailRun(p, [svc[p] EXCEPT !.searched = "threw"], Thrown(res.err))
     ELSE Advance(p, [svc[p] EXCEPT
                        !.searched = IF searchResult.success THEN "success"
                                     ELSE "success_false",
                        !.counts.sourced = Len(searchResult.candidates),
                        !.sourced = searchResult.candidates],
                  run_failures)
  /\ UNCHANGED <<candidates, candidate_source_records, candidate_scores,
                 candidate_identities, candidate_evidence_links,
                 workflowVars, libVars, uuid>>

\* run(): withRetry(searchTalent), the success test, counts.sourced
Search(p, res, searchResult) ==
  /\ svc[p].pc = "search"
  /\ IF ~res.ok
     THEN FailRun(p, [svc[p] EXCEPT !.searched = "threw"], Thrown(res.err))
     ELSE IF ~searchResult.success
     THEN FailRun(p, [svc[p] EXCEPT !.searched = "success_false"],
            PipelineStageError("linkedin_search", searchResult.error.msg,
              classifyLinkedInError(searchResult.error).type,
              classifyLinkedInError(searchResult.error).isTransient))
     ELSE Advance(p, [svc[p] EXCEPT !.searched = "success",
                                    !.counts.sourced = Len(searchResult.candidates),
                                    !.sourced = searchResult.candidates],
                  run_failures)
  /\ UNCHANGED <<candidates, candidate_source_records, candidate_scores,
                 candidate_identities, candidate_evidence_links,
                 workflowVars, libVars, uuid>>

\* Candidate loop, synchronous head: upsertCandidate, addSourceRecord
UpsertAndSource(p) ==
  /\ svc[p].pc = "upsert"
  /\ \E up \in upsertCandidate(candidates, svc[p].sourced[svc[p].idx], uuid + 1) :
       IF up.ok
       THEN /\ candidates' = up.rows
            /\ candidate_source_records' =
                 addSourceRecord(candidate_source_records, up.candidateId,
                                 svc[p].runId, svc[p].idx)
            /\ svc' = [svc EXCEPT ![p] = [@ EXCEPT !.pc = "profile",
                                            !.candidateId = up.candidateId]]
            /\ UNCHANGED <<pipeline_runs, run_failures>>
       ELSE /\ CandidateCatch(p, svc[p], Thrown(SqliteConstraintError))
            /\ UNCHANGED <<candidates, candidate_source_records>>
  /\ UNCHANGED <<candidate_scores, candidate_identities, candidate_evidence_links,
                 candidate_signals, workflowVars, enrichFrame, uuid>>

\* The head up to its await, the profile call taken as a whole by ProfileCall
CandidateUpsert(p) == UpsertAndSource(p) /\ UNCHANGED calls

\* const profile = await withRetry(getUserProfile): what follows its settling
ProfileAwaited(p, res) ==
  /\ svc[p].pc = "profile"
  /\ IF res.ok
     THEN /\ svc' = [svc EXCEPT ![p] = [@ EXCEPT !.pc = "activity"]]
          /\ UNCHANGED <<pipeline_runs, run_failures>>
     ELSE CandidateCatch(p, svc[p], Thrown(res.err))
  /\ UNCHANGED <<candidates, candidate_source_records, candidate_scores,
                 candidate_identities, candidate_evidence_links,
                 candidate_signals, workflowVars, enrichFrame, uuid>>

\* await withRetry(getUserProfile), the call taken as a whole
ProfileCall(p, res) == ProfileAwaited(p, res) /\ UNCHANGED calls

\* await Promise.all([posts, comments, reactions]): rejects with the error of
\* whichever call rejects first
ActivityAwaited(p, posts, comments, reactions) ==
  /\ svc[p].pc = "activity"
  /\ IF posts.ok /\ comments.ok /\ reactions.ok
     THEN /\ svc' = [svc EXCEPT ![p] = [@ EXCEPT !.pc = "external"]]
          /\ UNCHANGED <<pipeline_runs, run_failures>>
     ELSE \E r \in { x \in {posts, comments, reactions} : ~x.ok } :
            CandidateCatch(p, svc[p], Thrown(r.err))
  /\ UNCHANGED <<candidates, candidate_source_records, candidate_scores,
                 candidate_identities, candidate_evidence_links,
                 candidate_signals, workflowVars, enrichFrame, uuid>>

\* The three calls taken as a whole
ActivityCalls(p, posts, comments, reactions) ==
  ActivityAwaited(p, posts, comments, reactions) /\ UNCHANGED calls

\* What enrichExternalFootprint resolves to: nothing found, or a GitHub and
\* an X hit with their evidence links, hints and signal
NoHint == [handle |-> << >>, url |-> << >>]
ExternalFootprints ==
  { [evidenceLinks |-> << >>, signals |-> {},
     identityHints |-> [github |-> NoHint, x |-> NoHint, personalSite |-> NoHint]],
    [evidenceLinks |->
       << [url |-> <<"g">>, title |-> <<"agent">>, source |-> "exa.github",
           relevance |-> 700],
          [url |-> <<"x">>, title |-> << >>, source |-> "exa.x",
           relevance |-> undefined] >>,
     signals |-> { [key |-> "ai_native_evidence", numericValue |-> 700] },
     identityHints |-> [github |-> [handle |-> <<"L">>, url |-> <<"g">>],
                        x |-> [handle |-> <<"l">>, url |-> <<"x">>],
                        personalSite |-> NoHint]] }

\* The signals run() derives from the LinkedIn side, for a candidate without
\* recent posts, comments, reactions or skills
linkedinSignals(candidate) ==
  { [key |-> "builder_activity", numericValue |-> 0],
    [key |-> "technical_depth", numericValue |-> 0],
    [key |-> "role_fit",
     numericValue |-> IF candidate.headline # << >> THEN 600 ELSE 300] }

\* Variant: the GitHub side is given the employer and location of the candidate
rawIdentityOfWithContext(candidate, external) ==
  resolveIdentity(
    [linkedin |-> [profileUrl |-> candidate.profile_url,
                   employer |-> candidate.current_company,
                   location |-> candidate.location],
     github |-> [handle |-> external.identityHints.github.handle,
                 url |-> external.identityHints.github.url,
                 profileLinkedinUrl |-> << >>, employer |-> candidate.current_company,
                 location |-> candidate.location],
     x |-> [handle |-> external.identityHints.x.handle,
            url |-> external.identityHints.x.url,
            profileLinkedinUrl |-> << >>],
     personalSite |-> [url |-> external.identityHints.personalSite.url,
                       linkedinUrl |-> << >>, githubUrl |-> << >>, xUrl |-> << >>]])

\* run(): the resolveIdentity call, the hints being all resolveIdentity is given
\* of the external side
rawIdentityOf(candidate, external) ==
  resolveIdentity(
    [linkedin |-> [profileUrl |-> candidate.profile_url,
                   employer |-> candidate.current_company,
                   location |-> candidate.location],
     github |-> [handle |-> external.identityHints.github.handle,
                 url |-> external.identityHints.github.url,
                 profileLinkedinUrl |-> << >>, employer |-> << >>,
                 location |-> << >>],
     x |-> [handle |-> external.identityHints.x.handle,
            url |-> external.identityHints.x.url,
            profileLinkedinUrl |-> << >>],
     personalSite |-> [url |-> external.identityHints.personalSite.url,
                       linkedinUrl |-> << >>, githubUrl |-> << >>, xUrl |-> << >>]])

\* run(): identity = {...rawIdentity, shortlistEligible: confidence >= threshold}
identityOf(rawIdentity, minConfidenceForShortlist) ==
  [rawIdentity EXCEPT !.shortlistEligible =
     rawIdentity.confidence >= minConfidenceForShortlist]

\* run(): the LinkedIn profile link, then the external links; those without a
\* url dropped
evidenceLinksOf(candidate, external) ==
  SelectSeq(<< [url |-> candidate.profile_url, title |-> <<"LinkedIn:">>,
                source |-> "linkedin.profile", relevance |-> 1000] >>
              \o external.evidenceLinks,
            LAMBDA item : item.url # << >>)

\* run(): the signals array, LinkedIn side first, external.signals pushed last
signalsOf(candidate, external) ==
  << [key |-> "builder_activity", numericValue |-> 0, source |-> "linkedin.posts"],
     [key |-> "builder_activity", numericValue |-> 0, source |-> "linkedin.comments"],
     [key |-> "builder_activity", numericValue |-> 0, source |-> "linkedin.reactions"],
     [key |-> "technical_depth", numericValue |-> 0, source |-> "linkedin.profile"],
     [key |-> "role_fit",
      numericValue |-> IF candidate.headline # << >> THEN 600 ELSE 300,
      source |-> "linkedin.profile"] >>
    \o (IF external.signals = {} THEN << >>
        ELSE << [key |-> (CHOOSE sig \in external.signals : TRUE).key,
                 numericValue |-> (CHOOSE sig \in external.signals : TRUE).numericValue,
                 source |-> "exa.search"] >>)

\* run(): browser_verification_needed, pushed after external.signals for an
\* identity of band HIGH when verification is enabled in mode high_only
browserVerificationSignals(identity, enabled, mode) ==
  IF enabled /\ mode = "high_only" /\ identity.band = "HIGH"
  THEN << [key |-> "browser_verification_needed", numericValue |-> 1000,
           source |-> "pipeline"] >>
  ELSE << >>

\* store.addSignals: one INSERT per signal, observed_at = Date.now()
addSignals(rows, candidateId, signals, observedAt) ==
  rows (+) SetToBag({ [candidate_id |-> candidateId, signal_key |-> signals[i].key,
                       numeric_value |-> signals[i].numericValue,
                       observed_at |-> observedAt, source |-> signals[i].source]
                      : i \in DOMAIN signals })

\* const external = await withRetry(enrichExternalFootprint): what follows its
\* settling, identity, score and the store writes of the candidate, counts.enriched
ExternalAwaited(p, res, external) ==
  /\ svc[p].pc = "external"
  /\ IF res.ok
     THEN \E rec \in {svc[p]} :
          \E candidate \in {rec.sourced[rec.idx]} :
          \E identity \in {identityOf(rawIdentityOf(candidate, external),
                             rec.recruiting.identity.minConfidenceForShortlist)} :
          \E evidenceLinks \in {evidenceLinksOf(candidate, external)} :
          \E score \in {computeCandidateScore(
                          [signals |-> linkedinSignals(candidate) \cup external.signals,
                           identity |-> identity,
                           evidence |-> { evidenceLinks[i] : i \in DOMAIN evidenceLinks },
                           openToWork |-> FALSE])} :
          \E github \in {external.identityHints.github} :
          \E x \in {external.identityHints.x} :
          \E crossPlatform \in {upsertIdentity(candidate_identities, rec.candidateId,
                                  "cross_platform", << >>, << >>, identity)} :
          \E withGithub \in {IF github.handle # << >> \/ github.url # << >>
                             THEN upsertIdentity(crossPlatform, rec.candidateId, "github",
                                                 github.handle, github.url, identity)
                             ELSE crossPlatform} :
            /\ candidate_identities' =
                 (IF x.handle # << >> \/ x.url # << >>
                  THEN upsertIdentity(withGithub, rec.candidateId, "x",
                                      x.handle, x.url, identity)
                  ELSE withGithub)
            /\ candidate_signals' =
                 addSignals(candidate_signals, rec.candidateId,
                            signalsOf(candidate, external)
                              \o browserVerificationSignals(identity,
                                   rec.browserVerificationEnabled,
                                   rec.recruiting.browserVerification.mode), now)
            /\ candidate_scores' =
                 upsertScore(candidate_scores, rec.candidateId, rec.runId, score)
            /\ candidate_evidence_links' =
                 addEvidenceLinks(candidate_evidence_links, rec.candidateId,
                                  rec.runId, evidenceLinks, now)
            /\ Advance(p, [rec EXCEPT
                   !.counts.externalDiscovered =
                      IF external.evidenceLinks # << >> THEN @ + 1 ELSE @,
                   !.counts.identityConfirmedHigh =
                      IF identity.band \in {"CONFIRMED", "HIGH"} THEN @ + 1 ELSE @,
                   !.counts.identityMediumLow =
                      IF identity.band \in {"CONFIRMED", "HIGH"} THEN @ ELSE @ + 1,
                   !.counts.shortlistEligible =
                      IF score.shortlistEligible THEN @ + 1 ELSE @,
                   !.counts.enriched = @ + 1], run_failures)
     ELSE /\ CandidateCatch(p, svc[p], Thrown(res.err))
          /\ UNCHANGED <<candidate_scores, candidate_identities,
                         candidate_evidence_links, candidate_signals>>
  /\ UNCHANGED <<candidates, candidate_source_records, workflowVars, enrichFrame, uuid>>

\* await withRetry(enrichExternalFootprint), the call taken as a whole
ExternalCall(p, res, external) == ExternalAwaited(p, res, external) /\ UNCHANGED calls

\* ------------------------------------------------------- store: workflow
\* PRAGMA foreign_keys=ON: candidate_id and run_id must name existing rows
ForeignKeysHold(candidateId, runId) ==
  /\ \E c \in candidates : c.id = candidateId
  /\ \E r \in pipeline_runs : r.id = runId

\* Variant: a review without a priority is given 50
upsertReviewStatusDefault50(rows, candidateId, runId, status, priority, notes) ==
  { r \in rows : ~(r.candidate_id = candidateId /\ r.run_id = runId) }
    \cup { [candidate_id |-> candidateId, run_id |-> runId, status |-> status,
            priority |-> IF priority = undefined THEN 50 ELSE priority,
            notes |-> notes] }

\* upsertReviewStatus: ON CONFLICT(candidate_id, run_id) DO UPDATE of status,
\* priority (params.priority ?? 0), notes
upsertReviewStatus(rows, candidateId, runId, status, priority, notes) ==
  { r \in rows : ~(r.candidate_id = candidateId /\ r.run_id = runId) }
    \cup { [candidate_id |-> candidateId, run_id |-> runId, status |-> status,
            priority |-> IF priority = undefined THEN 0 ELSE priority,
            notes |-> notes] }

\* store.submitVerification: INSERT INTO candidate_verifications
insertVerification(rows, candidateId, runId, outcome) ==
  Append(rows, [candidate_id |-> candidateId, run_id |-> runId,
                method |-> "browser", outcome |-> outcome])

\* getPromotion: the promotion rows of the pair
getPromotion(rows, candidateId, runId) ==
  { i \in 1..Len(rows) : rows[i].candidate_id = candidateId /\ rows[i].run_id = runId }

\* store.promoteCandidate, first statement: INSERT INTO candidate_promotions
insertPromotion(rows, candidateId, runId, links) ==
  Append(rows, [candidate_id |-> candidateId, run_id |-> runId, proofLinks |-> links])

ReviewStatuses == {"new_review", "under_verification", "promoted_shortlist",
                   "rejected", "deferred"}
VerificationOutcomes == {"confirmed", "rejected", "inconclusive"}
Notes == {NULL, "note"}
\* `${prefix} ${params.notes ?? ""}`.trim()
prefixNotes(prefix, notes) == IF notes = NULL THEN prefix ELSE prefix \o " " \o notes

Called(op, candidateId, runId, arg, links, result) ==
  [n |-> last.n + 1, op |-> op, candidateId |-> candidateId, runId |-> runId,
   arg |-> arg, links |-> links, result |-> result]

\* ------------------------------------------------------ service: workflow
updateReviewStatus(candidateId, runId, status, notes) ==
  /\ last.n < MaxCalls
  /\ IF ForeignKeysHold(candidateId, runId)
     THEN /\ candidate_reviews' = upsertReviewStatus(candidate_reviews, candidateId,
                                     runId, status, undefined, notes)
          /\ last' = Called("updateReviewStatus", candidateId, runId, status, 0, "returned")
     ELSE /\ last' = Called("updateReviewStatus", candidateId, runId, status, 0, "raised")
          /\ UNCHANGED candidate_reviews
  /\ UNCHANGED <<storeVars, candidate_verifications, candidate_promotions, uuid, svc, libVars,
                 recruiting>>

\* Variant: an inconclusive outcome defers the review
reviewAfterVerificationDeferring(rows, candidateId, runId, outcome, notes) ==
  IF outcome = "confirmed"
  THEN upsertReviewStatus(rows, candidateId, runId, "promoted_shortlist", undefined,
                          prefixNotes("Verified via browser.", notes))
  ELSE IF outcome = "rejected"
  THEN upsertReviewStatus(rows, candidateId, runId, "rejected", undefined,
                          prefixNotes("Verification rejected.", notes))
  ELSE upsertReviewStatus(rows, candidateId, runId, "deferred", undefined, notes)

\* Variant: only a confirmed outcome moves the review
reviewAfterVerificationConfirmedOnly(rows, candidateId, runId, outcome, notes) ==
  IF outcome = "confirmed"
  THEN upsertReviewStatus(rows, candidateId, runId, "promoted_shortlist", undefined,
                          prefixNotes("Verified via browser.", notes))
  ELSE rows

\* The review status submitVerification moves the pair to, per outcome
reviewAfterVerification(rows, candidateId, runId, outcome, notes) ==
  IF outcome = "confirmed"
  THEN upsertReviewStatus(rows, candidateId, runId, "promoted_shortlist", undefined,
                          prefixNotes("Verified via browser.", notes))
  ELSE IF outcome = "rejected"
  THEN upsertReviewStatus(rows, candidateId, runId, "rejected", undefined,
                          prefixNotes("Verification rejected.", notes))
  ELSE rows

submitVerification(candidateId, runId, outcome, notes) ==
  /\ last.n < MaxCalls
  /\ IF ForeignKeysHold(candidateId, runId)
     THEN /\ candidate_verifications' =
               insertVerification(candidate_verifications, candidateId, runId, outcome)
          /\ candidate_reviews' =
               reviewAfterVerification(candidate_reviews, candidateId, runId, outcome, notes)
          /\ last' = Called("submitVerification", candidateId, runId, outcome, 0, "returned")
     ELSE /\ last' = Called("submitVerification", candidateId, runId, outcome, 0, "raised")
          /\ UNCHANGED <<candidate_verifications, candidate_reviews>>
  /\ UNCHANGED <<storeVars, candidate_promotions, uuid, svc, libVars, recruiting>>

\* Variant: one link fewer than minProofLinks is accepted
promotionRefusalOffByOne(promotions, candidateId, runId, links, minProofLinks) ==
  IF links < minProofLinks - 1 THEN "too_few_links"
  ELSE IF getPromotion(promotions, candidateId, runId) # {} THEN "already_promoted"
  ELSE "none"

\* Variant: an existing promotion is not looked for
promotionRefusalNoLookup(promotions, candidateId, runId, links, minProofLinks) ==
  IF links < minProofLinks THEN "too_few_links" ELSE "none"

\* The two refusals of promoteCandidate, in the order the code tests them
promotionRefusal(promotions, candidateId, runId, links, minProofLinks) ==
  IF links < minProofLinks THEN "too_few_links"
  ELSE IF getPromotion(promotions, candidateId, runId) # {} THEN "already_promoted"
  ELSE "none"

promoteCandidate(candidateId, runId, links) ==
  /\ last.n < MaxCalls
  /\ LET refusal == promotionRefusal(candidate_promotions, candidateId, runId, links,
                                     recruiting.promotion.minProofLinks)
     IN IF refusal # "none"
        THEN /\ last' = Called("promoteCandidate", candidateId, runId, refusal, links,
                               "success_false")
             /\ UNCHANGED <<candidate_promotions, candidate_reviews>>
        ELSE IF ForeignKeysHold(candidateId, runId)
        THEN /\ candidate_promotions' =
                  insertPromotion(candidate_promotions, candidateId, runId, links)
             /\ candidate_reviews' = upsertReviewStatus(candidate_reviews, candidateId,
                                        runId, "promoted_shortlist", undefined, NULL)
             /\ last' = Called("promoteCandidate", candidateId, runId, refusal, links,
                               "success_true")
        ELSE /\ last' = Called("promoteCandidate", candidateId, runId, refusal, links,
                               "raised")
             /\ UNCHANGED <<candidate_promotions, candidate_reviews>>
  /\ UNCHANGED <<storeVars, candidate_verifications, uuid, svc, libVars, recruiting>>

Step(p, n) ==
  \/ \E key \in Keys : BeginRunSelect(p, key)
  \/ BeginRunInsert(p)
  \/ \E account \in Accounts : Preflight(p, account)
  \/ \E res \in UnipileSettled, sr \in SearchResults(n) : Search(p, res, sr)
  \/ CandidateUpsert(p)
  \/ \E res \in UnipileSettled : ProfileCall(p, res)
  \/ \E r1 \in UnipileSettled, r2 \in UnipileSettled, r3 \in UnipileSettled :
       ActivityCalls(p, r1, r2, r3)
  \/ \E res \in ExaSettled, external \in ExternalFootprints :
       ExternalCall(p, res, external)

\* Two invocations of run(), each on its own connection to the same store
Next == \E p \in Procs : Step(p, MaxCandsShared)
Spec == Init /\ [][Next]_vars

\* One invocation of run()
NextSolo == Step("p1", MaxCands)
SpecSolo == Init /\ [][NextSolo]_vars

\* One invocation whose awaited calls all settle: it takes the step it is at,
\* the collaborators returning or throwing
SpecSoloLive == Init /\ [][NextSolo]_vars /\ WF_vars(NextSolo)

\* The workflow of one service over the store a completed run leaves behind:
\* candidates a and b sourced and scored by run 1. Callers may also name a
\* candidate ("ghost") or a run (3) the store does not hold.
WfCandidateIds == {<<"li", "a">>, <<"li", "b">>, <<"li", "ghost">>}
WfRunIds == {1, 3}
RawMinProofLinks == {undefined, 0, 3}

\* What run 1 sourced, found and persisted, under the default configuration
WfCandidate(providerId) == CHOOSE c \in CandPool : c.provider_id = providerId
WfFootprint == CHOOSE e \in ExternalFootprints : e.evidenceLinks = << >>
WfIdentity(providerId) ==
  identityOf(rawIdentityOf(WfCandidate(providerId), WfFootprint),
             resolveRecruitingConfig(RawDefaults).identity.minConfidenceForShortlist)
WfScore(providerId) ==
  computeCandidateScore(
    [signals |-> linkedinSignals(WfCandidate(providerId)) \cup WfFootprint.signals,
     identity |-> WfIdentity(providerId),
     evidence |-> { evidenceLinksOf(WfCandidate(providerId), WfFootprint)[i] :
                      i \in DOMAIN evidenceLinksOf(WfCandidate(providerId), WfFootprint) },
     openToWork |-> FALSE])

InitWorkflow ==
  /\ \E raw \in RawMinProofLinks :
       recruiting = resolveRecruitingConfig([RawDefaults EXCEPT !.minProofLinks = raw])
  /\ pipeline_runs =
       { [id |-> 1, idempotency_key |-> "k1", status |-> "completed",
          summary |-> JsonText(JSONstringify(
            buildDiagnostics([emptyCounts EXCEPT !.sourced = 2, !.enriched = 2,
                                                 !.identityMediumLow = 2],
                             << >>, NoFailure, accountHealth(ReadyAccount)))),
          finished_at |-> SqlInteger(0)] }
  /\ run_failures = [r \in RunIds |-> << >>]
  /\ candidates =
       { [id |-> <<"li", "a">>, provider_id |-> "a", public_identifier |-> "alice",
          normalized_profile_url_hash |-> hashUrl(<<"l">>)],
         [id |-> <<"li", "b">>, provider_id |-> "b", public_identifier |-> NULL,
          normalized_profile_url_hash |-> NoHash] }
  /\ candidate_source_records =
       { [candidate_id |-> <<"li", "a">>, run_id |-> 1, source |-> "linkedin.search",
          source_rank |-> 1],
         [candidate_id |-> <<"li", "b">>, run_id |-> 1, source |-> "linkedin.search",
          source_rank |-> 2] }
  /\ candidate_scores =
       upsertScore(upsertScore({}, <<"li", "a">>, 1, WfScore("a")),
                   <<"li", "b">>, 1, WfScore("b"))
  /\ candidate_identities =
       upsertIdentity(upsertIdentity({}, <<"li", "a">>, "cross_platform", << >>, << >>,
                                     WfIdentity("a")),
                      <<"li", "b">>, "cross_platform", << >>, << >>, WfIdentity("b"))
  /\ candidate_evidence_links =
       addEvidenceLinks(addEvidenceLinks({}, <<"li", "a">>, 1,
                                         evidenceLinksOf(WfCandidate("a"), WfFootprint), 0),
                        <<"li", "b">>, 1, evidenceLinksOf(WfCandidate("b"), WfFootprint), 0)
  /\ candidate_reviews = {}
  /\ candidate_verifications = << >>
  /\ candidate_promotions = << >>
  /\ uuid = 1
  /\ svc = [p \in Procs |-> idleSvc]
  /\ last = noCall
  /\ upserts = noUpserts
  /\ resolved = noResolved
  /\ marked = noMarked
  /\ now = 0
  /\ retry = noRetry
  /\ target = noTarget
  /\ entryPoint = noEntry
  /\ calls = {}
  /\ candidate_signals = EmptyBag
  /\ IdleWeb
  /\ scoring = noScoring

NextWorkflow ==
  \/ \E c \in WfCandidateIds, r \in WfRunIds, st \in ReviewStatuses, notes \in Notes :
       updateReviewStatus(c, r, st, notes)
  \/ \E c \in WfCandidateIds, r \in WfRunIds, o \in VerificationOutcomes, notes \in Notes :
       submitVerification(c, r, o, notes)
  \/ \E c \in WfCandidateIds, r \in WfRunIds, links \in 0..MaxProof :
       promoteCandidate(c, r, links)

SpecWorkflow == InitWorkflow /\ [][NextWorkflow]_vars

\* ------------------------------------------------- store: upsertCandidate
\* CandidateRecord inputs: providerId, publicIdentifier, profileUrl (two
\* spellings of one profile url)
UpsertInputs ==
  [provider_id : {NULL, "a", "b"}, public_identifier : {NULL, "alice", "bob"},
   profile_url : {NoUrl, <<"L", "/">>, <<"l">>}]

\* store.upsertCandidate(input): its return value, or the constraint error
UpsertCandidateCall(input) ==
  /\ upserts.n < MaxUpserts
  /\ \E up \in upsertCandidate(candidates, input, uuid + 1) :
       /\ candidates' = up.rows
       /\ uuid' = IF up.candidateId = <<"li_rand", uuid + 1>> THEN uuid + 1 ELSE uuid
       /\ upserts' =
            IF up.ok
            THEN [upserts EXCEPT !.n = @ + 1,
                    !.returned = @ \cup {[input |-> input, candidateId |-> up.candidateId]}]
            ELSE [upserts EXCEPT !.n = @ + 1, !.raised = @ \cup {input}]
  /\ UNCHANGED <<pipeline_runs, run_failures, candidate_source_records, candidate_scores,
                 candidate_identities, candidate_evidence_links, resolved, marked, now,
                 workflowVars, svc, scoring, auxVars>>

NextUpsert == \E input \in UpsertInputs : UpsertCandidateCall(input)
SpecUpsert == InitDefault /\ [][NextUpsert]_vars

\* Inputs: signals, identity resolutions and evidence links to draw from
SignalPool ==
  { [key |-> "builder_activity", numericValue |-> 250],
    [key |-> "builder_activity", numericValue |-> 750],
    [key |-> "ai_native_evidence", numericValue |-> 300],
    [key |-> "ai_native_evidence", numericValue |-> 1200],
    [key |-> "technical_depth", numericValue |-> 250],
    [key |-> "technical_depth", numericValue |-> NaN],
    [key |-> "role_fit", numericValue |-> 300],
    [key |-> "role_fit", numericValue |-> 600] }
IdentityPool == [confidence : {0, 700, 950}, shortlistEligible : BOOLEAN]
EvidencePool ==
  { [title |-> <<"MCP", "server">>, url |-> <<"https://github.com/alice/tool">>],
    [title |-> <<"LinkedIn:", "Alice">>, url |-> <<"https://linkedin.com/in/alice">>] }
ScoreInputs ==
  [signals : SUBSET SignalPool, identity : IdentityPool, evidence : SUBSET EvidencePool]

InitScore ==
  /\ recruiting = resolveRecruitingConfig(RawDefaults)
  /\ pipeline_runs = {}
  /\ run_failures = [r \in RunIds |-> << >>]
  /\ candidates = {}
  /\ candidate_source_records = {}
  /\ candidate_scores = {}
  /\ candidate_identities = {}
  /\ candidate_evidence_links = {}
  /\ candidate_reviews = {}
  /\ candidate_verifications = << >>
  /\ candidate_promotions = << >>
  /\ uuid = 0
  /\ svc = [p \in Procs |-> idleSvc]
  /\ last = noCall
  /\ upserts = noUpserts
  /\ resolved = noResolved
  /\ marked = noMarked
  /\ now = 0
  /\ retry = noRetry
  /\ target = noTarget
  /\ entryPoint = noEntry
  /\ calls = {}
  /\ candidate_signals = EmptyBag
  /\ IdleWeb
  /\ \E params \in ScoreInputs : scoring = [params |-> params, evaluations |-> << >>]

\* One evaluation of computeCandidateScore on the input, with an openToWork flag
Evaluate(openToWork) ==
  /\ Len(scoring.evaluations) < MaxEvaluations
  /\ scoring' =
       [scoring EXCEPT !.evaluations =
          Append(@, [openToWork |-> openToWork,
                     result |-> computeCandidateScore(
                       [signals |-> scoring.params.signals,
                        identity |-> scoring.params.identity,
                        evidence |-> scoring.params.evidence,
                        openToWork |-> openToWork])])]
  /\ UNCHANGED <<storeVars, workflowVars, uuid, svc, upserts, resolved, marked, now,
                 auxVars>>

NextScore == \E openToWork \in BOOLEAN : Evaluate(openToWork)
SpecScore == InitScore /\ [][NextScore]_vars

\* --------------------------------------------- store: diagnostics, results
\* The store after run 1 completed over candidates a and b and a second run
\* began, held by a caller that marks runs and adds evidence links itself
InitResults ==
  /\ recruiting = resolveRecruitingConfig(RawDefaults)
  /\ pipeline_runs =
       { [id |-> 1, idempotency_key |-> "k1", status |-> "completed",
          summary |-> JsonText(JSONstringify(
            buildDiagnostics([emptyCounts EXCEPT !.sourced = 2, !.enriched = 2,
                                                 !.identityMediumLow = 2],
                             << >>, NoFailure, accountHealth(ReadyAccount)))),
          finished_at |-> SqlInteger(0)],
         [id |-> 2, idempotency_key |-> "", status |-> "running", summary |-> SqlNull,
          finished_at |-> SqlNull] }
  /\ run_failures = [r \in RunIds |-> << >>]
  /\ candidates =
       { [id |-> <<"li", "a">>, provider_id |-> "a", public_identifier |-> "alice",
          normalized_profile_url_hash |-> hashUrl(<<"l">>)],
         [id |-> <<"li", "b">>, provider_id |-> "b", public_identifier |-> NULL,
          normalized_profile_url_hash |-> NoHash] }
  /\ candidate_source_records =
       { [candidate_id |-> <<"li", "a">>, run_id |-> 1, source |-> "linkedin.search",
          source_rank |-> 1],
         [candidate_id |-> <<"li", "b">>, run_id |-> 1, source |-> "linkedin.search",
          source_rank |-> 2] }
  /\ candidate_scores =
       upsertScore(upsertScore({}, <<"li", "a">>, 1, WfScore("a")),
                   <<"li", "b">>, 1, WfScore("b"))
  /\ candidate_identities =
       upsertIdentity(upsertIdentity({}, <<"li", "a">>, "cross_platform", << >>, << >>,
                                     WfIdentity("a")),
                      <<"li", "b">>, "cross_platform", << >>, << >>, WfIdentity("b"))
  /\ candidate_evidence_links =
       addEvidenceLinks(addEvidenceLinks({}, <<"li", "a">>, 1,
                                         evidenceLinksOf(WfCandidate("a"), WfFootprint), 0),
                        <<"li", "b">>, 1, evidenceLinksOf(WfCandidate("b"), WfFootprint), 0)
  /\ candidate_reviews = {}
  /\ candidate_verifications = << >>
  /\ candidate_promotions = << >>
  /\ uuid = 2
  /\ svc = [p \in Procs |-> idleSvc]
  /\ last = noCall
  /\ upserts = noUpserts
  /\ resolved = noResolved
  /\ marked = noMarked
  /\ now = 0
  /\ retry = noRetry
  /\ target = noTarget
  /\ entryPoint = noEntry
  /\ calls = {}
  /\ candidate_signals = EmptyBag
  /\ IdleWeb
  /\ scoring = noScoring

\* Diagnostics as run() builds them: counts with the stage errors behind them,
\* the search query with or without its optional strings, the modes, the
\* account health, and a failure block or none
DiagnosticsPool ==
  { [counts |-> c.counts,
     errorsByStage |-> c.errorsByStage,
     searchQueryUsed |-> q.searchQueryUsed,
     modes |-> q.modes,
     accountHealth |-> accountHealth(a),
     failure |-> f]
    : c \in { [counts |-> emptyCounts, errorsByStage |-> << >>],
              [counts |-> [emptyCounts EXCEPT !.sourced = 12, !.enriched = 10,
                                              !.enrichFailed = 2],
               errorsByStage |->
                 << [stage |-> "candidate_enrich_score", count |-> 2,
                     topMessages |-> << [message |-> "LinkedIn API error (429)",
                                         errorType |-> "rate_limit",
                                         count |-> 2] >>] >>] },
      q \in { [searchQueryUsed |->
                 [api |-> "classic", keywords |-> NULL, roleKeywords |-> <<"staff engineer">>,
                  skills |-> <<"typescript">>, companyKeywords |-> << >>,
                  location |-> NULL, industry |-> NULL, networkDistance |-> <<2>>,
                  pageSize |-> 50, maxPages |-> 3],
               modes |-> [sourceQueryMode |-> "broad", evidenceQueryMode |-> "strict"]],
              [searchQueryUsed |->
                 [api |-> "recruiter", keywords |-> "ai agents", roleKeywords |-> << >>,
                  skills |-> << >>, companyKeywords |-> << >>,
                  location |-> "Berlin", industry |-> NULL, networkDistance |-> << >>,
                  pageSize |-> 50, maxPages |-> 6],
               modes |-> [sourceQueryMode |-> "default", evidenceQueryMode |-> "default"]] },
      a \in { ReadyAccount, [enabled |-> FALSE, missingCredentials |-> {"api_key"}] },
      f \in { NoFailure, [stage |-> "linkedin_search", errorType |-> "rate_limit"] } }

\* store.markRunCompleted(runId, d)
MarkRunCompletedCall(runId, d) ==
  /\ runId \in RunIdsOf(pipeline_runs)
  /\ pipeline_runs' = markRunCompleted(pipeline_runs, runId, d)
  /\ marked' = [marked EXCEPT ![runId] = [set |-> TRUE, d |-> d, status |-> "completed"]]
  /\ UNCHANGED <<run_failures, candidates, candidate_source_records, candidate_scores,
                 candidate_identities, candidate_evidence_links, workflowVars, uuid, svc,
                 upserts, scoring, resolved, now, auxVars>>

\* store.markRunFailed(runId, d)
MarkRunFailedCall(runId, d) ==
  /\ runId \in RunIdsOf(pipeline_runs)
  /\ pipeline_runs' = markRunFailed(pipeline_runs, runId, d)
  /\ marked' = [marked EXCEPT ![runId] = [set |-> TRUE, d |-> d, status |-> "failed"]]
  /\ UNCHANGED <<run_failures, candidates, candidate_source_records, candidate_scores,
                 candidate_identities, candidate_evidence_links, workflowVars, uuid, svc,
                 upserts, scoring, resolved, now, auxVars>>

NextDiagnostics ==
  \E runId \in RunIds, d \in DiagnosticsPool :
    \/ MarkRunCompletedCall(runId, d)
    \/ MarkRunFailedCall(runId, d)
SpecDiagnostics == InitResults /\ [][NextDiagnostics]_vars

\* Evidence links a caller may add for candidate a in run 1, beside the profile
\* link run 1 stored: three urls, each with a relevance or none
EvidenceLinkPool ==
  [url : {<<"g">>, <<"x">>, <<"s">>}, source : {"exa"}, relevance : {undefined, 700}]

\* store.addEvidenceLinks({candidateId, runId, links})
AddEvidenceLinksCall(candidateId, runId, links) ==
  /\ candidate_evidence_links' =
       addEvidenceLinks(candidate_evidence_links, candidateId, runId, links, now)
  /\ UNCHANGED <<pipeline_runs, run_failures, candidates, candidate_source_records,
                 candidate_scores, candidate_identities, workflowVars, uuid, svc,
                 libVars>>

\* Time passes between two calls
Tick ==
  /\ now < MaxNow
  /\ now' = now + 1
  /\ UNCHANGED <<storeVars, workflowVars, uuid, svc, upserts, scoring, resolved, marked,
                 auxVars>>

NextEvidence ==
  \/ \E links \in SeqsUpTo(EvidenceLinkPool, MaxBatch) :
       AddEvidenceLinksCall(<<"li", "a">>, 1, links)
  \/ Tick
SpecEvidence == InitResults /\ [][NextEvidence]_vars

\* ------------------------------------------------------- resolveIdentity
\* Inputs: each field absent or present, the present ones agreeing with the
\* LinkedIn side up to case, blanks and a trailing slash, or differing from it
IdentityInputs ==
  [linkedin : [profileUrl : {<< >>, <<"L", "/">>},
               employer : {<< >>, <<"L">>},
               location : {<< >>, <<"l">>}],
   github : [handle : {<< >>, <<"L">>},
             url : {<< >>, <<"g">>},
             profileLinkedinUrl : {<< >>, <<"l">>},
             employer : {<< >>, <<"l", " ">>, <<"x">>},
             location : {<< >>, <<" ", "L">>}],
   x : [handle : {<< >>, <<"l">>, <<" ">>},
        url : {<< >>, <<"x">>},
        profileLinkedinUrl : {<< >>, <<"l", "/", "/">>}],
   personalSite : [linkedinUrl : {<< >>, <<"x">>},
                   githubUrl : {<< >>, <<"g", "/">>},
                   xUrl : {<< >>, <<"x">>}]]

NoResolution == [confidence |-> 0, band |-> "none", shortlistEligible |-> FALSE,
                 reasons |-> << >>]

InitIdentity ==
  /\ recruiting = resolveRecruitingConfig(RawDefaults)
  /\ pipeline_runs = {}
  /\ run_failures = [r \in RunIds |-> << >>]
  /\ candidates = {}
  /\ candidate_source_records = {}
  /\ candidate_scores = {}
  /\ candidate_identities = {}
  /\ candidate_evidence_links = {}
  /\ candidate_reviews = {}
  /\ candidate_verifications = << >>
  /\ candidate_promotions = << >>
  /\ uuid = 0
  /\ svc = [p \in Procs |-> idleSvc]
  /\ last = noCall
  /\ upserts = noUpserts
  /\ scoring = noScoring
  /\ marked = noMarked
  /\ now = 0
  /\ retry = noRetry
  /\ target = noTarget
  /\ entryPoint = noEntry
  /\ calls = {}
  /\ candidate_signals = EmptyBag
  /\ IdleWeb
  /\ \E input \in IdentityInputs :
       resolved = [set |-> TRUE, input |-> input, done |-> FALSE,
                   result |-> NoResolution]

\* One call of resolveIdentity on the drawn input
ResolveIdentityCall ==
  /\ resolved.set
  /\ ~resolved.done
  /\ resolved' = [resolved EXCEPT !.done = TRUE, !.result = resolveIdentity(resolved.input)]
  /\ UNCHANGED <<storeVars, workflowVars, uuid, svc, upserts, scoring, marked, now,
                 auxVars>>

NextIdentity == ResolveIdentityCall
SpecIdentity == InitIdentity /\ [][NextIdentity]_vars

\* One withRetry call followed from its first attempt: the task invocations
\* counted, the errors caught and the sleeps taken recorded in order.
InitRetry ==
  /\ recruiting = resolveRecruitingConfig(RawDefaults)
  /\ pipeline_runs = {}
  /\ run_failures = [r \in RunIds |-> << >>]
  /\ candidates = {}
  /\ candidate_source_records = {}
  /\ candidate_scores = {}
  /\ candidate_identities = {}
  /\ candidate_evidence_links = {}
  /\ candidate_reviews = {}
  /\ candidate_verifications = << >>
  /\ candidate_promotions = << >>
  /\ uuid = 0
  /\ svc = [p \in Procs |-> idleSvc]
  /\ last = noCall
  /\ upserts = noUpserts
  /\ resolved = noResolved
  /\ marked = noMarked
  /\ now = 0
  /\ target = noTarget
  /\ entryPoint = noEntry
  /\ calls = {}
  /\ candidate_signals = EmptyBag
  /\ IdleWeb
  /\ scoring = noScoring
  /\ \E provider \in Providers :
       retry = [call |-> startRetry(provider), invoked |-> 1, caught |-> << >>,
                slept |-> << >>]

\* The task of the current attempt settles; the catch block runs up to its
\* throw or its call of sleep
TaskSettles(outcome, random) ==
  /\ retry.call.phase = "task"
  /\ retry' = [retry EXCEPT
       !.call = taskSettles(@, outcome),
       !.caught = IF outcome = OK THEN @ ELSE Append(@, outcome),
       !.slept = IF taskSettles(retry.call, outcome).phase = "sleep"
                 THEN Append(@, sleepFor(retry.call, random)) ELSE @]
  /\ UNCHANGED <<storeVars, workflowVars, uuid, svc, upserts, scoring, resolved,
                 marked, now, target, entryPoint, calls,
                 candidate_signals, webVars>>

\* The timer of the sleep fires
SleepEnds ==
  /\ retry.call.phase = "sleep"
  /\ retry' = [retry EXCEPT !.call = sleepEnds(@), !.invoked = @ + 1]
  /\ UNCHANGED <<storeVars, workflowVars, uuid, svc, upserts, scoring, resolved,
                 marked, now, target, entryPoint, calls,
                 candidate_signals, webVars>>

NextRetry ==
  \/ \E outcome \in {OK} \cup Errors, random \in Randoms : TaskSettles(outcome, random)
  \/ SleepEnds
SpecRetry == InitRetry /\ [][NextRetry]_vars

\* run() followed for what it does with the target: role.targetCandidates as a
\* caller hands it over (none, a count, a fraction, or the NaN the CLI's
\* parseInt gives for a non-number) under a configured default.
RoleTargets == {undefined, NaN, -50, 0, 5, 10, 15, Tenths(300), Tenths(2000),
                Tenths(2001), Tenths(5000)}
RawTargets == {undefined, NaN, 0, 2505, Tenths(2000), Tenths(3000)}

InitTarget ==
  /\ recruiting = resolveRecruitingConfig(RawDefaults)
  /\ pipeline_runs = {}
  /\ run_failures = [r \in RunIds |-> << >>]
  /\ candidates = {}
  /\ candidate_source_records = {}
  /\ candidate_scores = {}
  /\ candidate_identities = {}
  /\ candidate_evidence_links = {}
  /\ candidate_reviews = {}
  /\ candidate_verifications = << >>
  /\ candidate_promotions = << >>
  /\ uuid = 0
  /\ svc = [p \in Procs |-> idleSvc]
  /\ last = noCall
  /\ upserts = noUpserts
  /\ resolved = noResolved
  /\ marked = noMarked
  /\ now = 0
  /\ retry = noRetry
  /\ entryPoint = noEntry
  /\ calls = {}
  /\ candidate_signals = EmptyBag
  /\ IdleWeb
  /\ scoring = noScoring
  /\ \E roleTarget \in RoleTargets, raw \in RawTargets :
       target = [stage |-> "called", roleTarget |-> roleTarget,
                 config |-> resolveRecruitingConfig(
                              [RawDefaults EXCEPT !.targetCandidatesPerRole = raw])]

\* run() up to beginRun: the target, the daily key built from it, and the
\* targetCandidates beginRun stores in pipeline_runs.target_candidates
RunTargetBegin ==
  /\ target.stage = "called"
  /\ \E targetCandidates \in {targetCandidatesOf(target.roleTarget, target.config)} :
       target' = [stage |-> "begun", roleTarget |-> target.roleTarget,
                  config |-> target.config,
                  targetCandidates |-> targetCandidates,
                  dailyKey |-> buildIdempotencyKey("role", targetCandidates, "day"),
                  target_candidates |-> targetCandidates]
  /\ UNCHANGED <<storeVars, workflowVars, uuid, svc, upserts, scoring, resolved,
                 marked, now, retry, entryPoint, calls,
                 candidate_signals, webVars>>

\* run(): the searchTalent request, limit: targetCandidates
RunTargetSearch ==
  /\ target.stage = "begun"
  /\ target' = [stage |-> "search", roleTarget |-> target.roleTarget,
                config |-> target.config,
                targetCandidates |-> target.targetCandidates,
                dailyKey |-> target.dailyKey,
                target_candidates |-> target.target_candidates,
                limit |-> target.targetCandidates]
  /\ UNCHANGED <<storeVars, workflowVars, uuid, svc, upserts, scoring, resolved,
                 marked, now, retry, entryPoint, calls,
                 candidate_signals, webVars>>

NextTarget == RunTargetBegin \/ RunTargetSearch
SpecTarget == InitTarget /\ [][NextTarget]_vars

\* service.status(runId): the stored status of the run, read only
serviceStatus(runId) ==
  /\ last.n < MaxCalls
  /\ last' = Called("status", NULL, runId, getRunStatus(pipeline_runs, runId).status,
                    0, "returned")
  /\ UNCHANGED <<storeVars, candidate_reviews, candidate_verifications,
                 candidate_promotions, uuid, svc, libVars, recruiting>>

\* service.results(runId, limit): the ranked results of the run, read only
serviceResults(runId, limit) ==
  /\ last.n < MaxCalls
  /\ \E res \in getResults(runId, limit) :
       last' = Called("results", NULL, runId, NULL, res.meta.totalCandidates, "returned")
  /\ UNCHANGED <<storeVars, candidate_reviews, candidate_verifications,
                 candidate_promotions, uuid, svc, libVars, recruiting>>

\* The operations of the service made one after the other over one store, as
\* CLI commands are: two run() invocations, the queries and the workflow calls
\* on the candidates and runs the store holds, while time passes.
Returned(p) == svc[p].pc \in {"idle", "done"}

NextLifecycle ==
  \/ \E p \in Procs :
       /\ \A q \in Procs \ {p} : Returned(q)
       /\ Step(p, MaxCandsShared)
  \/ (now < MaxClock /\ Tick)
  \/ \E r \in RunIdsOf(pipeline_runs) :
       /\ \A q \in Procs : Returned(q)
       /\ last.n < MaxQueries
       /\ (serviceStatus(r) \/ serviceResults(r, 1))
  \/ \E c \in { x.id : x \in candidates }, r \in RunIdsOf(pipeline_runs) :
       /\ \A q \in Procs : Returned(q)
       /\ last.n < MaxQueries
       /\ \/ \E st \in ReviewStatuses : updateReviewStatus(c, r, st, NULL)
          \/ \E o \in VerificationOutcomes : submitVerification(c, r, o, NULL)
          \/ \E links \in 0..MaxProof : promoteCandidate(c, r, links)
SpecLifecycle == InitDefault /\ [][NextLifecycle]_vars

\* The process running run() is stopped between two candidates, at the head of
\* the candidate loop: nothing more of this invocation runs, no catch included
Cancel(p) ==
  /\ svc[p].pc = "upsert"
  /\ svc' = [svc EXCEPT ![p] = [@ EXCEPT !.pc = "cancelled"]]
  /\ UNCHANGED <<storeVars, workflowVars, libVars, uuid>>

\* A run() that may be stopped between candidates, and the operator's second
\* run() made once the first has returned or been stopped. Every step that can
\* be taken eventually is.
NextResume ==
  \/ Step("p1", MaxCands)
  \/ Cancel("p1")
  \/ /\ svc["p1"].pc \in {"done", "cancelled"}
     /\ Step("p2", MaxCands)
SpecResume == InitDefault /\ [][NextResume]_vars /\ WF_vars(NextResume)

\* ------------------------------------------------------------ entry points
\* Variant: only an explicit false disables the pipeline
ensureEnabledUnlessFalse(raw) ==
  IF raw.enabled = [type |-> "boolean", value |-> FALSE] THEN "throws" ELSE "cfg"

\* recruiting-cli ensureEnabled: throws unless the resolved config is enabled
ensureEnabled(raw) ==
  IF ~resolveRecruitingConfig(raw).enabled THEN "throws" ELSE "cfg"

\* tool.ts createCandidatePipelineTool: null unless the resolved config is enabled
createCandidatePipelineTool(raw) ==
  IF ~resolveRecruitingConfig(raw).enabled THEN "null" ELSE "tool"

\* The subcommands of `recruiting`, which are also the tool's actions
Commands == {"run", "status", "results", "candidate"}

\* service.candidate(id): the candidate record or null, read only
serviceCandidate(candidateId) ==
  /\ last.n < MaxCalls
  /\ last' = Called("candidate", candidateId, NoRunId, NULL, 0,
                    IF \E c \in candidates : c.id = candidateId THEN "returned"
                    ELSE "null")
  /\ UNCHANGED <<storeVars, candidate_reviews, candidate_verifications,
                 candidate_promotions, uuid, svc, libVars, recruiting>>

\* One process over an empty store, under a configuration that sets
\* tools.recruiting.enabled one way or another; no service constructed yet
InitEntry ==
  /\ recruiting = resolveRecruitingConfig(RawDefaults)
  /\ pipeline_runs = {}
  /\ run_failures = [r \in RunIds |-> << >>]
  /\ candidates = {}
  /\ candidate_source_records = {}
  /\ candidate_scores = {}
  /\ candidate_identities = {}
  /\ candidate_evidence_links = {}
  /\ candidate_reviews = {}
  /\ candidate_verifications = << >>
  /\ candidate_promotions = << >>
  /\ uuid = 0
  /\ svc = [p \in Procs |-> idleSvc]
  /\ last = noCall
  /\ upserts = noUpserts
  /\ resolved = noResolved
  /\ marked = noMarked
  /\ now = 0
  /\ retry = noRetry
  /\ target = noTarget
  /\ calls = {}
  /\ candidate_signals = EmptyBag
  /\ IdleWeb
  /\ scoring = noScoring
  /\ \E enabled \in RawEnabled :
       entryPoint = [stage |-> "start", raw |-> [RawDefaults EXCEPT !.enabled = enabled],
                     via |-> "none", command |-> "none", exit |-> 0]

\* A `recruiting <command>` action up to new CandidatePipelineService(cfg), or
\* to the catch that reports the error and exits 1
CliCommand(command) ==
  /\ entryPoint.stage = "start"
  /\ entryPoint' =
       IF ensureEnabled(entryPoint.raw) = "throws"
       THEN [entryPoint EXCEPT !.stage = "exited", !.via = "cli",
                               !.command = command, !.exit = 1]
       ELSE [entryPoint EXCEPT !.stage = "service", !.via = "cli",
                               !.command = command]
  /\ UNCHANGED <<storeVars, workflowVars, uuid, svc, upserts, scoring, resolved,
                 marked, now, retry, target, calls,
                 candidate_signals, webVars>>

\* The agent asks for the tool
CreateTool ==
  /\ entryPoint.stage = "start"
  /\ entryPoint' =
       IF createCandidatePipelineTool(entryPoint.raw) = "null"
       THEN [entryPoint EXCEPT !.stage = "no_tool", !.via = "tool"]
       ELSE [entryPoint EXCEPT !.stage = "tool", !.via = "tool"]
  /\ UNCHANGED <<storeVars, workflowVars, uuid, svc, upserts, scoring, resolved,
                 marked, now, retry, target, calls,
                 candidate_signals, webVars>>

\* tool.execute, up to new CandidatePipelineService(cfg)
ToolExecute(action) ==
  /\ entryPoint.stage = "tool"
  /\ entryPoint' = [entryPoint EXCEPT !.stage = "service", !.command = action]
  /\ UNCHANGED <<storeVars, workflowVars, uuid, svc, upserts, scoring, resolved,
                 marked, now, retry, target, calls,
                 candidate_signals, webVars>>

\* The constructed service carries out the command
ServiceCommand ==
  /\ entryPoint.stage = "service"
  /\ \/ entryPoint.command = "run" /\ Step("p1", MaxCandsShared)
     \/ /\ entryPoint.command = "status" /\ last.n = 0
        /\ \E r \in RunIds : serviceStatus(r)
     \/ /\ entryPoint.command = "results" /\ last.n = 0
        /\ \E r \in RunIds : serviceResults(r, 1)
     \/ /\ entryPoint.command = "candidate" /\ last.n = 0
        /\ serviceCandidate(<<"li", "a">>)

\* finally service.close(), the command over; exit 1 from the catch when the
\* command raised
ServiceClose ==
  /\ entryPoint.stage = "service"
  /\ IF entryPoint.command = "run" THEN svc["p1"].pc = "done" ELSE last.n = 1
  /\ entryPoint' = [entryPoint EXCEPT !.stage = "closed",
                      !.exit = IF svc["p1"].result = "raised" THEN 1 ELSE 0]
  /\ UNCHANGED <<storeVars, workflowVars, uuid, svc, upserts, scoring, resolved,
                 marked, now, retry, target, calls,
                 candidate_signals, webVars>>

NextEntry ==
  \/ \E command \in Commands : CliCommand(command)
  \/ CreateTool
  \/ \E action \in Commands : ToolExecute(action)
  \/ ServiceCommand
  \/ ServiceClose
SpecEntry == InitEntry /\ [][NextEntry]_vars

\* ------------------------------------------ run(): the calls of a candidate
\* run() with each withRetry call of the candidate loop followed attempt by
\* attempt. calls holds a record per call issued: the candidate's index, which
\* call it is, and the withRetry loop's position. The records of a candidate's
\* settled calls stay until the head of the next candidate.
MaxRetries == 1

LinkedInActivity == {"posts", "comments", "reactions"}
CandidateCalls == {"profile", "external"} \cup LinkedInActivity

Issue(idx, name, provider) ==
  [idx |-> idx, name |-> name, call |-> startRetry(provider)]

\* The calls that have not settled: their task running, or their backoff sleep
InFlight == { c \in calls : c.call.phase \in {"task", "sleep"} }

\* run() is suspended on this call: the await of the profile, the Promise.all
\* of the activity calls, the await of the external footprint
Awaited(p, c) ==
  /\ c.idx = svc[p].idx
  /\ \/ svc[p].pc = "profile" /\ c.name = "profile"
     \/ svc[p].pc = "activity" /\ c.name \in LinkedInActivity
     \/ svc[p].pc = "external" /\ c.name = "external"

\* Variant: a rejection reaches the awaiting code as a value
settledAsValue(call) == [ok |-> TRUE, err |-> call.err]

\* What an await of the call's promise gives: its value, or the error thrown
settledAs(call) == [ok |-> call.phase = "resolved", err |-> call.err]

\* The head of a candidate; withRetry(getUserProfile) entered, its task invoked
FlightUpsert(p) ==
  /\ UpsertAndSource(p)
  /\ calls' = { c \in calls : c \in InFlight }
                \cup (IF svc'[p].pc = "profile"
                      THEN {Issue(svc[p].idx, "profile", "unipile")} ELSE {})

\* The task of a call settles and its withRetry loop goes on to return, throw
\* or sleep; when run() awaits the promise that settles with it, run() goes on
\* to its next await or to the catch
FlightTaskSettles(p, c, outcome) ==
  /\ c \in calls
  /\ c.call.phase = "task"
  /\ (outcome # OK /\ Retryable(c.call.provider, outcome)) => c.call.attempt <= MaxRetries
  /\ \E settled \in {[c EXCEPT !.call = taskSettles(@, outcome)]} :
     \E res \in {settledAs(settled.call)} :
     \E others \in {calls \ {c}} :
       IF settled.call.phase = "sleep" \/ ~Awaited(p, c)
       THEN /\ calls' = IF settled.call.phase = "sleep" THEN others \cup {settled}
                        ELSE others
            /\ UNCHANGED <<storeVars, workflowVars, uuid, svc, enrichFrame,
                           candidate_signals>>
       ELSE IF c.name = "profile"
       THEN /\ ProfileAwaited(p, res)
            /\ calls' = others \cup {settled}
                          \cup (IF res.ok
                                THEN { Issue(c.idx, name, "unipile")
                                       : name \in LinkedInActivity }
                                ELSE {})
       ELSE IF c.name \in LinkedInActivity
       THEN IF res.ok /\ \E d \in others : /\ d.idx = c.idx
                                           /\ d.name \in LinkedInActivity
                                           /\ d \in InFlight
            THEN /\ calls' = others \cup {settled}
                 /\ UNCHANGED <<storeVars, workflowVars, uuid, svc, enrichFrame,
                                candidate_signals>>
            ELSE /\ ActivityAwaited(p, res, res, res)
                 /\ calls' = others \cup {settled}
                               \cup (IF res.ok THEN {Issue(c.idx, "external", "exa")}
                                     ELSE {})
       ELSE /\ \E external \in ExternalFootprints : ExternalAwaited(p, res, external)
            /\ calls' = others \cup {settled}

\* The timer of a call's backoff sleep fires: its task is invoked again
FlightSleepEnds(c) ==
  /\ c \in calls
  /\ c.call.phase = "sleep"
  /\ calls' = (calls \ {c}) \cup {[c EXCEPT !.call = sleepEnds(@)]}
  /\ UNCHANGED <<storeVars, workflowVars, uuid, svc, enrichFrame, candidate_signals>>

\* What a task settles with: a value, a transient error, a permanent one
TaskOutcomes == {OK} \cup { e \in Errors : e.type # "unknown" }

NextFlight ==
  \/ BeginRunSelect("p1", "k1")
  \/ BeginRunInsert("p1")
  \/ \E account \in Accounts : Preflight("p1", account)
  \/ \E res \in UnipileSettled, sr \in SearchResults(MaxCands) : Search("p1", res, sr)
  \/ FlightUpsert("p1")
  \/ \E c \in calls, outcome \in TaskOutcomes : FlightTaskSettles("p1", c, outcome)
  \/ \E c \in calls : FlightSleepEnds(c)
SpecFlight == InitDefault /\ [][NextFlight]_vars

\* getWorkflowStats(runId): the counts over the candidate_reviews rows of the
\* run, a SUM over no rows being NULL and so 0
getWorkflowStats(rows, runId) ==
  LET ofRun == { r \in rows : r.run_id = runId }
  IN [reviewedCount |-> Cardinality({ r \in ofRun : r.status \in
                          {"promoted_shortlist", "rejected", "deferred"} }),
      promotedCount |-> Cardinality({ r \in ofRun : r.status = "promoted_shortlist" }),
      deferredCount |-> Cardinality({ r \in ofRun : r.status = "deferred" }),
      rejectedCount |-> Cardinality({ r \in ofRun : r.status = "rejected" })]

\* ------------------------------------------------- store: verification queue
\* ORDER BY r.priority DESC, s.total_score DESC
queueOrder(S) ==
  { pair \in S \X S :
      \/ pair[1].priority > pair[2].priority
      \/ /\ pair[1].priority = pair[2].priority
         /\ pair[1].total_score >= pair[2].total_score }

\* getVerificationQueue(runId, limit, priority): the lists it may return in the
\* current state. candidate_reviews JOIN candidates JOIN candidate_scores LEFT
\* JOIN candidate_identities, WHERE run and status (and priority >= 50 for
\* "high"), ORDER BY, LIMIT max(1, trunc(limit)); the evidence of each row, read
\* as getResults reads it, is left out of the items
getVerificationQueue(runId, limit, priority) ==
  LET joined ==
        { pair \in candidate_reviews \X candidate_scores :
            /\ \E c \in candidates : c.id = pair[1].candidate_id
            /\ pair[2].candidate_id = pair[1].candidate_id
            /\ pair[2].run_id = pair[1].run_id
            /\ pair[1].run_id = runId
            /\ pair[1].status = "under_verification"
            /\ priority = "high" => pair[1].priority >= 50 }
      rows == { [candidate_id |-> pair[1].candidate_id, priority |-> pair[1].priority,
                 total_score |-> pair[2].total_score,
                 shortlist_eligible |-> pair[2].shortlist_eligible]
                : pair \in joined }
      identityOfRow(row) == { i \in candidate_identities :
                                /\ i.candidate_id = row.candidate_id
                                /\ i.platform = "cross_platform" }
      item(row) ==
        [candidateId |-> row.candidate_id,
         totalScore |-> row.total_score,
         shortlistEligible |-> row.shortlist_eligible = 1,
         identityBand |-> IF identityOfRow(row) = {} THEN "LOW"
                          ELSE (CHOOSE i \in identityOfRow(row) : TRUE).band,
         identityConfidence |-> IF identityOfRow(row) = {} THEN 0
                                ELSE (CHOOSE i \in identityOfRow(row) : TRUE).confidence]
  IN { [i \in DOMAIN Limit(o, IF limit < 1 THEN 1 ELSE limit) |-> item(o[i])]
       : o \in Orderings(rows, queueOrder(rows)) }

\* service.getVerificationQueue: the store's list, read only
serviceGetVerificationQueue(runId, limit, priority) ==
  /\ last.n < MaxCalls + 1
  /\ \E queue \in getVerificationQueue(runId, limit, priority) :
       last' = Called("getVerificationQueue", NULL, runId, priority, limit, queue)
  /\ UNCHANGED <<storeVars, candidate_reviews, candidate_verifications,
                 candidate_promotions, uuid, svc, libVars, recruiting>>

\* The store two completed runs leave behind: run 1 sourced a, b and c, scored
\* a and b and failed to enrich c; run 2 sourced and scored a. Some of the
\* pairs have been put under verification since.
QueueCandidateIds == {<<"li", "a">>, <<"li", "b">>, <<"li", "c">>}
QueuePairs == (QueueCandidateIds \X {1}) \cup {<<<<"li", "a">>, 2>>}
QueueLimits == {1, 5}
QueuePriorities == {"all", "high"}

InitQueue ==
  /\ recruiting = resolveRecruitingConfig(RawDefaults)
  /\ pipeline_runs =
       { [id |-> 1, idempotency_key |-> "k1", status |-> "completed",
          summary |-> JsonText(JSONstringify(
            buildDiagnostics([emptyCounts EXCEPT !.sourced = 3, !.enriched = 2,
                                                 !.enrichFailed = 1,
                                                 !.identityMediumLow = 2],
                             upsertStageError(<< >>, "candidate_enrich_score",
                                              "unauthorized", "auth"),
                             NoFailure, accountHealth(ReadyAccount)))),
          finished_at |-> SqlInteger(0)],
         [id |-> 2, idempotency_key |-> "k2", status |-> "completed",
          summary |-> JsonText(JSONstringify(
            buildDiagnostics([emptyCounts EXCEPT !.sourced = 1, !.enriched = 1,
                                                 !.identityMediumLow = 1],
                             << >>, NoFailure, accountHealth(ReadyAccount)))),
          finished_at |-> SqlInteger(0)] }
  /\ run_failures =
       [r \in RunIds |->
          IF r = 1
          THEN recordFailure([q \in RunIds |-> << >>], 1, "candidate_enrich_score",
                             "c", "auth", FALSE)[1]
          ELSE << >>]
  /\ candidates =
       { [id |-> <<"li", "a">>, provider_id |-> "a", public_identifier |-> "alice",
          normalized_profile_url_hash |-> hashUrl(<<"l">>)],
         [id |-> <<"li", "b">>, provider_id |-> "b", public_identifier |-> NULL,
          normalized_profile_url_hash |-> NoHash],
         [id |-> <<"li", "c">>, provider_id |-> "c", public_identifier |-> NULL,
          normalized_profile_url_hash |-> NoHash] }
  /\ candidate_source_records =
       { [candidate_id |-> <<"li", "a">>, run_id |-> 1, source |-> "linkedin.search",
          source_rank |-> 1],
         [candidate_id |-> <<"li", "b">>, run_id |-> 1, source |-> "linkedin.search",
          source_rank |-> 2],
         [candidate_id |-> <<"li", "c">>, run_id |-> 1, source |-> "linkedin.search",
          source_rank |-> 3],
         [candidate_id |-> <<"li", "a">>, run_id |-> 2, source |-> "linkedin.search",
          source_rank |-> 1] }
  /\ candidate_scores =
       upsertScore(upsertScore(upsertScore({}, <<"li", "a">>, 1, WfScore("a")),
                               <<"li", "b">>, 1, WfScore("b")),
                   <<"li", "a">>, 2, WfScore("a"))
  /\ candidate_identities =
       upsertIdentity(upsertIdentity({}, <<"li", "a">>, "cross_platform", << >>, << >>,
                                     WfIdentity("a")),
                      <<"li", "b">>, "cross_platform", << >>, << >>, WfIdentity("b"))
  /\ candidate_evidence_links =
       addEvidenceLinks(addEvidenceLinks({}, <<"li", "a">>, 1,
                                         evidenceLinksOf(WfCandidate("a"), WfFootprint), 0),
                        <<"li", "b">>, 1, evidenceLinksOf(WfCandidate("b"), WfFootprint), 0)
  /\ \E pairs \in SUBSET QueuePairs :
       candidate_reviews =
         { [candidate_id |-> pair[1], run_id |-> pair[2],
            status |-> "under_verification", priority |-> 0, notes |-> NULL]
           : pair \in pairs }
  /\ candidate_verifications = << >>
  /\ candidate_promotions = << >>
  /\ uuid = 2
  /\ svc = [p \in Procs |-> idleSvc]
  /\ last = noCall
  /\ upserts = noUpserts
  /\ resolved = noResolved
  /\ marked = noMarked
  /\ now = 0
  /\ retry = noRetry
  /\ target = noTarget
  /\ entryPoint = noEntry
  /\ calls = {}
  /\ candidate_signals = EmptyBag
  /\ IdleWeb
  /\ scoring = noScoring

NextQueue ==
  \/ \E c \in QueueCandidateIds, r \in RunIds, st \in ReviewStatuses :
       updateReviewStatus(c, r, st, NULL)
  \/ \E c \in QueueCandidateIds, r \in RunIds, o \in VerificationOutcomes :
       submitVerification(c, r, o, NULL)
  \/ \E c \in QueueCandidateIds, r \in RunIds, links \in 0..MaxProof :
       promoteCandidate(c, r, links)
  \/ \E r \in RunIds, limit \in QueueLimits, priority \in QueuePriorities :
       serviceGetVerificationQueue(r, limit, priority)
SpecQueue == InitQueue /\ [][NextQueue]_vars

\* ------------------------------------------------ run(): errors by stage
\* One run over a list of MaxStageCands sourced candidates whose profile calls
\* end in a value or in one of four errors; the other collaborators answer.
MaxStageCands == 4 \* length of the candidate list the search returns (SpecStage)

StageErrors ==
  Errors \cup { [type |-> "unknown", isTransient |-> FALSE, msg |-> "socket hang up"] }
StageSettled == { [ok |-> TRUE, err |-> OK] } \cup { [ok |-> FALSE, err |-> e] : e \in StageErrors }
StageSourced == [i \in 1..MaxStageCands |-> WfCandidate("a")]

NextStage ==
  \/ BeginRunSelect("p1", "k1")
  \/ BeginRunInsert("p1")
  \/ Preflight("p1", ReadyAccount)
  \/ Search("p1", [ok |-> TRUE, err |-> OK],
            [success |-> TRUE, error |-> OK, candidates |-> StageSourced])
  \/ CandidateUpsert("p1")
  \/ \E res \in StageSettled : ProfileCall("p1", res)
  \/ ActivityCalls("p1", [ok |-> TRUE, err |-> OK], [ok |-> TRUE, err |-> OK],
                   [ok |-> TRUE, err |-> OK])
  \/ ExternalCall("p1", [ok |-> TRUE, err |-> OK], WfFootprint)
SpecStage == InitDefault /\ [][NextStage]_vars

\* ------------------------------------------- run(): browser verification
\* One invocation of run() under a configuration that may enable browser
\* verification, with an input that may set browserVerificationEnabled
RawModes == {"", "always", "high_only"}
RawFlags == { [type |-> "undefined"], BooleanTrue, [type |-> "boolean", value |-> FALSE] }

InitBrowser ==
  /\ EmptyStore
  /\ \E minConfidence \in RawMinConfidence, enabled \in RawFlags, mode \in RawModes,
        input \in RawFlags :
       \E config \in {resolveRecruitingConfig(
                        [RawDefaults EXCEPT !.minConfidenceForShortlist = minConfidence,
                                            !.browserVerificationEnabled = enabled,
                                            !.browserVerificationMode = mode])} :
         svc = [p \in Procs |->
                  [idleSvc EXCEPT !.recruiting = config,
                                  !.browserVerificationEnabled =
                                     browserVerificationEnabledOf(input, config)]]
SpecBrowser == InitBrowser /\ [][NextSolo]_vars

\* --------------------------------------------- run(): source query mode
\* A text is a sequence of tokens: words, and the characters between them, a
\* space, a slash or a hyphen each a token of its own. Two words are never
\* adjacent. The empty text stands for a keywords property that is absent.
MaxTokens == 3 \* longest top-level keywords text, in tokens (SpecSource)

SourceWords == {"claude", "code", "MCP", "rust"}
SourceSeparators == {" ", "/"}
WellFormed(text) ==
  \A i \in DOMAIN text :
    i + 1 \in DOMAIN text => ~(text[i] \in SourceWords /\ text[i + 1] \in SourceWords)
SourceTexts(n) ==
  { text \in SeqsUpTo(SourceWords \cup SourceSeparators, n) : WellFormed(text) }

\* The terms in the order of the array, each lower-case, word by word
AI_NATIVE_SOURCE_TERMS ==
  << <<"claude", " ", "code">>, <<"codex">>, <<"mcp">>,
     <<"model", " ", "context", " ", "protocol">>, <<"agentic">>,
     <<"ai", "-", "native">>, <<"autogen">>, <<"langgraph">>, <<"cursor">>,
     <<"windsurf">>, <<"agents">>, <<"agent">> >>

\* The flag i of the patterns
LowerTokens(text) == [i \in DOMAIN text |-> LowerWord(text[i])]

\* out.replace(new RegExp(`\\b${term}\\b`, "gi"), " "): left to right, each
\* occurrence of the term between word boundaries becomes one space
RECURSIVE replaceTerm(_, _)
replaceTerm(text, term) ==
  IF text = << >> THEN << >>
  ELSE IF Len(text) >= Len(term) /\ LowerTokens(SubSeq(text, 1, Len(term))) = term
  THEN <<" ">> \o replaceTerm(SubSeq(text, Len(term) + 1, Len(text)), term)
  ELSE <<Head(text)>> \o replaceTerm(Tail(text), term)

\* for (const term of AI_NATIVE_SOURCE_TERMS): one term after the other
RECURSIVE replaceTerms(_, _)
replaceTerms(text, terms) ==
  IF terms = << >> THEN text
  ELSE replaceTerms(replaceTerm(text, Head(terms)), Tail(terms))

\* out.replace(/[|/]+/g, " ")
replaceSlashes(text) ==
  [i \in DOMAIN text |-> IF text[i] \in {"/", "|"} THEN " " ELSE text[i]]

\* normalizeWhitespace: runs of white space become one space, then trim()
RECURSIVE collapseWhitespace(_)
collapseWhitespace(text) ==
  IF Len(text) < 2 THEN text
  ELSE IF text[1] = " " /\ text[2] = " " THEN collapseWhitespace(Tail(text))
  ELSE <<Head(text)>> \o collapseWhitespace(Tail(text))
normalizeWhitespace(text) ==
  LET collapsed == collapseWhitespace(text)
      first == IF collapsed # << >> /\ Head(collapsed) = " " THEN 2 ELSE 1
      last_ == IF collapsed # << >> /\ collapsed[Len(collapsed)] = " "
               THEN Len(collapsed) - 1 ELSE Len(collapsed)
  IN SubSeq(collapsed, first, last_)

\* stripAiNativeTerms: the terms, then the slashes and bars, then the white space
stripAiNativeTerms(value) ==
  normalizeWhitespace(replaceSlashes(replaceTerms(value, AI_NATIVE_SOURCE_TERMS)))

\* keywords ? stripAiNativeTerms(keywords) || undefined : keywords
strippedKeywords(keywords) ==
  IF keywords # << >> THEN stripAiNativeTerms(keywords) ELSE keywords

\* normalizeSearchForSourceMode: the input itself unless the mode is broad; in
\* broad mode the keywords stripped, and the filters left without keywords
\* dropped unless they carry an id (a company: an id or a name)
normalizeSearchForSourceMode(input, mode) ==
  IF mode # "broad" THEN input
  ELSE [input EXCEPT
          !.keywords = strippedKeywords(@),
          !.role = SelectSeq([i \in DOMAIN @ |-> [@[i] EXCEPT !.keywords = strippedKeywords(@)]],
                             LAMBDA role : role.keywords # << >> \/ role.id # << >>),
          !.skills = SelectSeq([i \in DOMAIN @ |-> [@[i] EXCEPT !.keywords = strippedKeywords(@)]],
                               LAMBDA skill : skill.keywords # << >> \/ skill.id # << >>),
          !.company = SelectSeq([i \in DOMAIN @ |-> [@[i] EXCEPT !.keywords = strippedKeywords(@)]],
                                LAMBDA company : \/ company.keywords # << >>
                                                 \/ company.id # << >>
                                                 \/ company.name # << >>)]

\* The filters a caller gives: by keywords, by id, by both (a company: by name)
FilterTexts == { <<"MCP">>, <<"rust", "/", "MCP">> }
RoleFilters ==
  { [keywords |-> text, id |-> << >>] : text \in FilterTexts }
    \cup { [keywords |-> << >>, id |-> <<"7">>], [keywords |-> <<"MCP">>, id |-> <<"7">>] }
CompanyFilters ==
  { [keywords |-> text, id |-> << >>, name |-> << >>] : text \in FilterTexts }
    \cup { [keywords |-> <<"MCP">>, id |-> << >>, name |-> <<"acme">>] }
SourceModes == {"default", "broad"}

\* run(): role.search and input.sourceQueryMode ?? "default"
DrawSearch ==
  /\ sourceSearch.stage = "none"
  /\ \E keywords \in SourceTexts(MaxTokens), role \in SeqsUpTo(RoleFilters, 1),
        skills \in SeqsUpTo(RoleFilters, 1), company \in SeqsUpTo(CompanyFilters, 1),
        mode \in SourceModes :
       sourceSearch' = [stage |-> "input", mode |-> mode,
                        input |-> [keywords |-> keywords, role |-> role,
                                   skills |-> skills, company |-> company]]
  /\ UNCHANGED <<storeVars, workflowVars, uuid, svc, upserts, scoring, resolved, marked,
                 now, retry, target, entryPoint, calls, candidate_signals,
                 SEARCH_CACHE, FETCH_CACHE, webCall, webHistory>>

\* run(): const search = normalizeSearchForSourceMode(role.search, sourceQueryMode),
\* the parameters searchTalent is called with
NormalizeSearch ==
  /\ sourceSearch.stage = "input"
  /\ sourceSearch' = [stage |-> "sent", mode |-> sourceSearch.mode,
                      input |-> sourceSearch.input,
                      search |-> normalizeSearchForSourceMode(sourceSearch.input,
                                                              sourceSearch.mode)]
  /\ UNCHANGED <<storeVars, workflowVars, uuid, svc, upserts, scoring, resolved, marked,
                 now, retry, target, entryPoint, calls, candidate_signals,
                 SEARCH_CACHE, FETCH_CACHE, webCall, webHistory>>

NextSource == DrawSearch \/ NormalizeSearch
SpecSource == InitDefault /\ [][NextSource]_vars

\* ------------------------------------------------- searchExa and fetchUrl
\* Date.now() is read in milliseconds; the clock of this specification moves in
\* steps of five minutes, up to MaxWebTicks of them.
MaxWebTicks == 13 \* steps the clock makes in one behaviour (SpecWeb)
TickMs == 5 * 60 * 1000
SEARCH_TTL_MS == 15 * 60 * 1000
FETCH_TTL_MS == 60 * 60 * 1000

\* The searches enrichExternalFootprint makes of one person, and one page
SearchParams ==
  { [query |-> <<"ada">>, count |-> <<"5">>, includeDomains |-> <<"github.com">>,
     category |-> << >>],
    [query |-> <<"ada">>, count |-> <<"5">>, includeDomains |-> <<"x.com", "twitter.com">>,
     category |-> <<"person">>] }
Urls == { <<"https://ada.dev">> }
\* What the collaborators answer with: hits, or the text of a page
SearchHits == { << >>, <<"hit">> }
FetchContents == { <<"text">> }

\* includeDomains.join(",")
RECURSIVE join(_)
join(items) ==
  IF items = << >> THEN << >>
  ELSE IF Len(items) = 1 THEN items
  ELSE <<Head(items), ",">> \o join(Tail(items))

\* `${query}:${count}:${(includeDomains ?? []).join(",")}:${category ?? ""}`
searchKey(params) ==
  params.query \o <<":">> \o params.count \o <<":">> \o join(params.includeDomains)
    \o <<":">> \o params.category

\* cleanupCache, for one of the two maps: the entries with expiresAt <= now deleted
cleanup(cache, nowMs) ==
  [key \in { k \in DOMAIN cache : cache[k].expiresAt > nowMs } |-> cache[key]]

\* cached && cached.expiresAt > nowMs()
Cached(cache, key, nowMs) == key \in DOMAIN cache /\ cache[key].expiresAt > nowMs

\* Variant: the entry lives twice its time
cacheSetTwice(cache, key, value, nowMs, ttlMs) ==
  [k \in DOMAIN cache \cup {key} |->
     IF k = key THEN [value |-> value, expiresAt |-> nowMs + 2 * ttlMs] ELSE cache[k]]

\* CACHE.set(key, {value, expiresAt: nowMs() + ttl})
cacheSet(cache, key, value, nowMs, ttlMs) ==
  [k \in DOMAIN cache \cup {key} |->
     IF k = key THEN [value |-> value, expiresAt |-> nowMs + ttlMs] ELSE cache[k]]

\* Time passes
WebTick ==
  /\ now < MaxWebTicks * TickMs
  /\ now' = now + TickMs
  /\ UNCHANGED <<storeVars, workflowVars, uuid, svc, upserts, scoring, resolved, marked,
                 retry, target, entryPoint, calls, candidate_signals, webVars>>

\* searchExa up to its await, begun at the time at: cleanupCache, then the cached
\* hits returned or the search tool called
SearchExaBegins(params) ==
  /\ webCall.phase # "awaiting"
  /\ SEARCH_CACHE' = cleanup(SEARCH_CACHE, now)
  /\ FETCH_CACHE' = cleanup(FETCH_CACHE, now)
  /\ webCall' =
       IF Cached(SEARCH_CACHE', searchKey(params), now)
       THEN [phase |-> "returned", fn |-> "searchExa", key |-> searchKey(params),
             called |-> FALSE, at |-> now, value |-> SEARCH_CACHE'[searchKey(params)].value]
       ELSE [phase |-> "awaiting", fn |-> "searchExa", key |-> searchKey(params),
             called |-> TRUE, at |-> now, value |-> << >>]
  /\ UNCHANGED <<storeVars, workflowVars, uuid, svc, upserts, scoring, resolved, marked,
                 now, retry, target, entryPoint, calls, candidate_signals,
                 sourceSearch, webHistory>>

\* tool.execute of the search tool settles: the hits cached for 15 minutes and
\* returned, or its error thrown
SearchExaSettles(ok, hits) ==
  /\ webCall.phase = "awaiting" /\ webCall.fn = "searchExa"
  /\ IF ok
     THEN /\ SEARCH_CACHE' = cacheSet(SEARCH_CACHE, webCall.key, hits, now, SEARCH_TTL_MS)
          /\ webCall' = [webCall EXCEPT !.phase = "returned", !.value = hits]
          /\ webHistory' = [k \in DOMAIN webHistory \cup {webCall.key} |->
                              IF k = webCall.key THEN [at |-> now, value |-> hits]
                              ELSE webHistory[k]]
     ELSE /\ webCall' = [webCall EXCEPT !.phase = "threw"]
          /\ UNCHANGED <<SEARCH_CACHE, webHistory>>
  /\ UNCHANGED <<storeVars, workflowVars, uuid, svc, upserts, scoring, resolved, marked,
                 now, retry, target, entryPoint, calls, candidate_signals,
                 sourceSearch, FETCH_CACHE>>

\* fetchUrl up to its await
FetchUrlBegins(url) ==
  /\ webCall.phase # "awaiting"
  /\ SEARCH_CACHE' = cleanup(SEARCH_CACHE, now)
  /\ FETCH_CACHE' = cleanup(FETCH_CACHE, now)
  /\ webCall' =
       IF Cached(FETCH_CACHE', url, now)
       THEN [phase |-> "returned", fn |-> "fetchUrl", key |-> url,
             called |-> FALSE, at |-> now, value |-> FETCH_CACHE'[url].value]
       ELSE [phase |-> "awaiting", fn |-> "fetchUrl", key |-> url,
             called |-> TRUE, at |-> now, value |-> << >>]
  /\ UNCHANGED <<storeVars, workflowVars, uuid, svc, upserts, scoring, resolved, marked,
                 now, retry, target, entryPoint, calls, candidate_signals,
                 sourceSearch, webHistory>>

\* tool.execute of the fetch tool settles: the text cached for 60 minutes and
\* returned, or its error thrown
FetchUrlSettles(ok, content) ==
  /\ webCall.phase = "awaiting" /\ webCall.fn = "fetchUrl"
  /\ IF ok
     THEN /\ FETCH_CACHE' = cacheSet(FETCH_CACHE, webCall.key, content, now, FETCH_TTL_MS)
          /\ webCall' = [webCall EXCEPT !.phase = "returned", !.value = content]
          /\ webHistory' = [k \in DOMAIN webHistory \cup {webCall.key} |->
                              IF k = webCall.key THEN [at |-> now, value |-> content]
                              ELSE webHistory[k]]
     ELSE /\ webCall' = [webCall EXCEPT !.phase = "threw"]
          /\ UNCHANGED <<FETCH_CACHE, webHistory>>
  /\ UNCHANGED <<storeVars, workflowVars, uuid, svc, upserts, scoring, resolved, marked,
                 now, retry, target, entryPoint, calls, candidate_signals,
                 sourceSearch, SEARCH_CACHE>>

NextWeb ==
  \/ WebTick
  \/ \E params \in SearchParams : SearchExaBegins(params)
  \/ \E ok \in BOOLEAN, hits \in SearchHits : SearchExaSettles(ok, hits)
  \/ \E url \in Urls : FetchUrlBegins(url)
  \/ \E ok \in BOOLEAN, content \in FetchContents : FetchUrlSettles(ok, content)
SpecWeb == InitDefault /\ [][NextWeb]_vars

\* ================================================================== claims
StatusIn(rows, runId) == (CHOOSE r \in rows : r.id = runId).status
SummaryIn(rows, runId) ==
  LET raw == (CHOOSE r \in rows : r.id = runId).summary
      diagnostics == parseJson(raw, undefinedObject)
  IN IF raw.null THEN NoSummary
     ELSE [counts |-> diagnostics.counts, failure |-> Prop(diagnostics, "failure"),
           accountHealth |-> diagnostics.accountHealth, set |-> TRUE]
CandidateStages == {"upsert", "profile", "activity", "external"}
PromotionsOf(c, r) ==
  { i \in 1..Len(candidate_promotions) :
      candidate_promotions[i].candidate_id = c /\ candidate_promotions[i].run_id = r }
ReviewsOf(rows, c, r) == { x \in rows : x.candidate_id = c /\ x.run_id = r }
IsCall(op) == last'.n # last.n /\ last'.op = op

\* C1: a beginRun (run) made with a non-empty idempotency key while the run of
\* that key is running or completed returns that run's id with resumed = true,
\* and creates no pipeline_runs row.
C1_ResumeSameRun ==
  [][ \A p \in Procs :
        ( /\ svc[p].pc = "idle" /\ svc'[p].pc # "idle"
          /\ svc'[p].key # ""
          /\ \E r \in pipeline_runs : /\ r.idempotency_key = svc'[p].key
                                      /\ r.status \in {"running", "completed"} )
        => /\ svc'[p].pc = "done"
           /\ svc'[p].result = "returned"
           /\ svc'[p].resumed
           /\ \E r \in pipeline_runs : /\ r.id = svc'[p].runId
                                      /\ r.idempotency_key = svc'[p].key
           /\ pipeline_runs' = pipeline_runs ]_vars

\* Two calls with key k1: the second got the run the first created
C1_Witness ==
  \E p \in Procs, q \in Procs :
    /\ p # q
    /\ svc[q].key = "k1" /\ svc[p].key = "k1"
    /\ svc[q].runId # NoRunId /\ ~svc[q].resumed
    /\ svc[p].pc = "done" /\ svc[p].resumed /\ svc[p].runId = svc[q].runId
    /\ Cardinality(pipeline_runs) = 1

\* C2: a beginRun (run) made with the key of a failed run creates a new run:
\* status running, a run id no row had, resumed = false.
C2_FailedRunRestarts ==
  [][ \A p \in Procs :
        ( /\ svc[p].pc = "insert" /\ svc'[p].pc # "insert"
          /\ svc[p].key # ""
          /\ \E r \in pipeline_runs : /\ r.idempotency_key = svc[p].key
                                      /\ r.status = "failed" )
        => /\ svc'[p].result # "raised"
           /\ ~svc'[p].resumed
           /\ svc'[p].runId \notin RunIdsOf(pipeline_runs)
           /\ \E r \in pipeline_runs' : /\ r.id = svc'[p].runId
                                       /\ r.idempotency_key = svc[p].key
                                       /\ r.status = "running" ]_vars

\* C3: run(input) never raises: every invocation that ends has returned
\* {runId, resumed, status}, a failure showing as the run marked failed.
C3_RunNeverRaises ==
  \A p \in Procs :
    svc[p].pc = "done"
      => /\ svc[p].result = "returned"
         /\ svc[p].runId \in RunIdsOf(pipeline_runs)
         /\ svc[p].status \in {"running", "completed", "failed"}

\* C4: when the processing of one sourced candidate raises, enrichFailed grows
\* by exactly 1, exactly one run_failures row with stage candidate_enrich_score
\* and that candidate's ref is appended, the next candidate is taken up, and
\* the run whose search succeeded ends completed with every candidate counted.
C4_Step ==
  \A p \in Procs :
    ( /\ svc[p].pc \in CandidateStages
      /\ svc'[p].idx # svc[p].idx \/ svc'[p].pc = "done"
      /\ svc'[p].counts.enriched = svc[p].counts.enriched )
    => /\ svc'[p].counts.enrichFailed = svc[p].counts.enrichFailed + 1
       /\ Len(run_failures'[svc[p].runId]) = Len(run_failures[svc[p].runId]) + 1
       /\ SubSeq(run_failures'[svc[p].runId], 1, Len(run_failures[svc[p].runId]))
            = run_failures[svc[p].runId]
       /\ LET row == run_failures'[svc[p].runId][Len(run_failures'[svc[p].runId])]
          IN /\ row.step = "candidate_enrich_score"
             /\ row.candidate_ref = svc[p].sourced[svc[p].idx].provider_id
             /\ row.run_id = svc[p].runId
       /\ IF svc[p].idx < Len(svc[p].sourced)
          THEN /\ svc'[p].pc = "upsert" /\ svc'[p].idx = svc[p].idx + 1
               /\ StatusIn(pipeline_runs', svc[p].runId) = "running"
          ELSE /\ svc'[p].pc = "done" /\ svc'[p].result = "returned"
               /\ svc'[p].status = "completed"
               /\ StatusIn(pipeline_runs', svc[p].runId) = "completed"

C4_End ==
  \A p \in Procs :
    (svc[p].pc = "done" /\ svc[p].searched = "success")
    => /\ svc[p].result = "returned"
       /\ StatusIn(pipeline_runs, svc[p].runId) = "completed"
       /\ svc[p].idx = Len(svc[p].sourced)
       /\ svc[p].counts.enriched + svc[p].counts.enrichFailed = Len(svc[p].sourced)
       /\ Len(run_failures[svc[p].runId]) = svc[p].counts.enrichFailed
       /\ \A i \in 1..Len(run_failures[svc[p].runId]) :
            run_failures[svc[p].runId][i].step = "candidate_enrich_score"
       /\ SummaryIn(pipeline_runs, svc[p].runId).counts = svc[p].counts

C4_CandidateFailureContained == [][C4_Step]_vars /\ []C4_End

\* Candidates <<a, b>>: a raised, b was enriched afterwards, the run completed
C4_Witness ==
  /\ svc["p1"].pc = "done"
  /\ Len(svc["p1"].sourced) = 2
  /\ svc["p1"].sourced[1].provider_id = "a" /\ svc["p1"].sourced[2].provider_id = "b"
  /\ svc["p1"].counts.enrichFailed = 1 /\ svc["p1"].counts.enriched = 1
  /\ Len(run_failures[svc["p1"].runId]) = 1
  /\ run_failures[svc["p1"].runId][1].candidate_ref = "a"
  /\ \E x \in candidate_scores : x.candidate_id = <<"li", "b">> /\ x.run_id = svc["p1"].runId
  /\ StatusIn(pipeline_runs, svc["p1"].runId) = "completed"

\* C5: when the resolved account is disabled or its credentials are missing,
\* the run ends failed with diagnostics.failure = {stage: linkedin_preflight,
\* errorType: auth}, the recorded failure is non-retryable, the search
\* collaborator is never called and the run writes no candidate row.
C5_PreflightFailure ==
  \A p \in Procs :
    ( /\ svc[p].accountHealth.resolved
      /\ ~svc[p].accountHealth.enabled \/ svc[p].accountHealth.missingCredentials # {} )
    => /\ svc[p].pc = "done" /\ svc[p].result = "returned" /\ svc[p].status = "failed"
       /\ StatusIn(pipeline_runs, svc[p].runId) = "failed"
       /\ SummaryIn(pipeline_runs, svc[p].runId).failure
            = [stage |-> "linkedin_preflight", errorType |-> "auth"]
       /\ Len(run_failures[svc[p].runId]) = 1
       /\ run_failures[svc[p].runId][1].step = "linkedin_preflight"
       /\ run_failures[svc[p].runId][1].error_type = "auth"
       /\ ~run_failures[svc[p].runId][1].retryable
       /\ svc[p].searched = "no"
       /\ svc[p].sourced = << >>
       /\ ~\E x \in candidate_source_records : x.run_id = svc[p].runId
       /\ ~\E x \in candidate_scores : x.run_id = svc[p].runId

\* An enabled account whose credentials are missing failed the run
C5_Witness ==
  /\ svc["p1"].accountHealth.resolved
  /\ svc["p1"].accountHealth.enabled
  /\ svc["p1"].accountHealth.missingCredentials # {}
  /\ svc["p1"].status = "failed"
  /\ candidates = {}

\* C6: a sourcing failure (the search returns success = false, or throws after
\* its retries or with a non-retryable error) is fatal: the run ends failed
\* with diagnostics.failure set, exactly one run_failures row is written and
\* no candidate is enriched.
C6_SourcingFailureFatal ==
  \A p \in Procs :
    svc[p].searched \in {"success_false", "threw"}
    => /\ svc[p].pc = "done" /\ svc[p].result = "returned" /\ svc[p].status = "failed"
       /\ StatusIn(pipeline_runs, svc[p].runId) = "failed"
       /\ SummaryIn(pipeline_runs, svc[p].runId).set
       /\ SummaryIn(pipeline_runs, svc[p].runId).failure.stage
            = (IF svc[p].searched = "threw" THEN "pipeline_run" ELSE "linkedin_search")
       /\ Len(run_failures[svc[p].runId]) = 1
       /\ run_failures[svc[p].runId][1].step
            = SummaryIn(pipeline_runs, svc[p].runId).failure.stage
       /\ svc[p].counts.enriched = 0
       /\ ~\E x \in candidate_scores : x.run_id = svc[p].runId
       /\ ~\E x \in candidate_source_records : x.run_id = svc[p].runId

\* The search threw a transient error on every attempt
C6_Witness ==
  /\ svc["p1"].searched = "threw"
  /\ svc["p1"].status = "failed"
  /\ Len(run_failures[svc["p1"].runId]) = 1
  /\ run_failures[svc["p1"].runId][1].error_type = "rate_limit"
  /\ run_failures[svc["p1"].runId][1].retryable

\* C7: of two invocations with the same key that interleave between the lookup
\* and the insert of beginRun, the one that inserts second creates no row and
\* returns the first one's run id with resumed = true, without raising.
C7_ConcurrentBeginRun ==
  [][ \A p \in Procs, q \in Procs :
        ( /\ p # q
          /\ svc[p].pc = "insert" /\ svc'[p].pc # "insert"
          /\ svc[p].key # "" /\ svc[q].key = svc[p].key
          /\ svc[q].pc \notin {"idle", "insert", "done"} )
        => /\ svc'[p].result # "raised"
           /\ svc'[p].resumed /\ svc'[p].runId = svc[q].runId
           /\ ~svc[q].resumed
           /\ pipeline_runs' = pipeline_runs ]_vars

\* C8: promoteCandidate with fewer evidence links than minProofLinks returns
\* {success: false, error} without raising, inserts no candidate_promotions
\* row and inserts or modifies no candidate_reviews row.
C8_TooFewLinksRefused ==
  [][ (IsCall("promoteCandidate") /\ last'.links < recruiting.promotion.minProofLinks)
      => /\ last'.result = "success_false"
         /\ candidate_promotions' = candidate_promotions
         /\ candidate_reviews' = candidate_reviews ]_vars

\* A stored pair offered one link fewer than required
C8_Witness ==
  /\ last.op = "promoteCandidate"
  /\ last.candidateId = <<"li", "a">> /\ last.runId = 1
  /\ last.links = recruiting.promotion.minProofLinks - 1
  /\ last.links >= 1
  /\ last.result = "success_false"
  /\ candidate_promotions = << >>

\* C9: candidate_promotions holds at most one row per (candidate, run);
\* promoteCandidate for a pair already promoted returns success = false and
\* writes nothing.
C9_AtMostOne ==
  \A c \in WfCandidateIds, r \in WfRunIds : Cardinality(PromotionsOf(c, r)) <= 1

C9_SecondRefused ==
  (IsCall("promoteCandidate") /\ PromotionsOf(last'.candidateId, last'.runId) # {})
  => /\ last'.result = "success_false"
     /\ candidate_promotions' = candidate_promotions
     /\ candidate_reviews' = candidate_reviews
     /\ candidate_verifications' = candidate_verifications

C9_SinglePromotion == []C9_AtMostOne /\ [][C9_SecondRefused]_vars

\* A promoted pair offered again with enough links
C9_Witness ==
  /\ last.op = "promoteCandidate"
  /\ last.links >= recruiting.promotion.minProofLinks
  /\ last.result = "success_false"
  /\ Cardinality(PromotionsOf(last.candidateId, last.runId)) = 1

\* C10: after submitVerification for a pair, whatever its review state was:
\* outcome confirmed leaves the review promoted_shortlist, outcome rejected
\* leaves it rejected, and in both cases exactly one verification row is
\* appended.
C10_VerificationOutcome ==
  [][ ( /\ IsCall("submitVerification") /\ last'.result = "returned"
        /\ last'.arg \in {"confirmed", "rejected"} )
      => /\ \E x \in candidate_reviews' :
              /\ x.candidate_id = last'.candidateId /\ x.run_id = last'.runId
              /\ x.status = (IF last'.arg = "confirmed" THEN "promoted_shortlist"
                             ELSE "rejected")
         /\ Cardinality(ReviewsOf(candidate_reviews', last'.candidateId, last'.runId)) = 1
         /\ Len(candidate_verifications') = Len(candidate_verifications) + 1
         /\ SubSeq(candidate_verifications', 1, Len(candidate_verifications))
              = candidate_verifications
         /\ LET row == candidate_verifications'[Len(candidate_verifications')]
            IN /\ row.candidate_id = last'.candidateId /\ row.run_id = last'.runId
               /\ row.outcome = last'.arg ]_vars

\* A pair confirmed, then rejected: the review went from promoted_shortlist to
\* rejected
C10_Witness ==
  /\ last.op = "submitVerification" /\ last.result = "returned" /\ last.arg = "rejected"
  /\ Len(candidate_verifications) = 2
  /\ candidate_verifications[1].outcome = "confirmed"
  /\ candidate_verifications[1].candidate_id = last.candidateId
  /\ candidate_verifications[1].run_id = last.runId
  /\ candidate_verifications[2].candidate_id = last.candidateId
  /\ \E x \in candidate_reviews :
       /\ x.candidate_id = last.candidateId /\ x.run_id = last.runId
       /\ x.status = "rejected"

\* C11: submitVerification with outcome inconclusive leaves candidate_reviews
\* as it was (an existing review row keeps status, priority and notes, none is
\* created) and appends exactly one candidate_verifications row.
C11_InconclusiveLeavesReview ==
  [][ ( /\ IsCall("submitVerification") /\ last'.result = "returned"
        /\ last'.arg = "inconclusive" )
      => /\ candidate_reviews' = candidate_reviews
         /\ candidate_promotions' = candidate_promotions
         /\ Len(candidate_verifications') = Len(candidate_verifications) + 1
         /\ SubSeq(candidate_verifications', 1, Len(candidate_verifications))
              = candidate_verifications
         /\ LET row == candidate_verifications'[Len(candidate_verifications')]
            IN /\ row.candidate_id = last'.candidateId /\ row.run_id = last'.runId
               /\ row.outcome = "inconclusive" ]_vars

\* A pair under verification, with notes, verified inconclusively
C11_Witness ==
  /\ last.op = "submitVerification" /\ last.result = "returned"
  /\ last.arg = "inconclusive"
  /\ Len(candidate_verifications) = 1
  /\ \E x \in candidate_reviews :
       /\ x.candidate_id = last.candidateId /\ x.run_id = last.runId
       /\ x.status = "under_verification" /\ x.notes = "note"

\* C12: any two upsertCandidate invocations given the same providerId, or the
\* same publicIdentifier, or the same profile url up to normalisation, return
\* the same candidateId, whatever other upsertCandidate calls were made before
\* or between them.
SameInputKey(x, y) ==
  \/ x.provider_id # NULL /\ x.provider_id = y.provider_id
  \/ x.public_identifier # NULL /\ x.public_identifier = y.public_identifier
  \/ /\ normalizeProfileUrl(x.profile_url) # << >>
     /\ normalizeProfileUrl(x.profile_url) = normalizeProfileUrl(y.profile_url)

C12_SameKeySameCandidate ==
  \A x \in upserts.returned, y \in upserts.returned :
    SameInputKey(x.input, y.input) => x.candidateId = y.candidateId

\* Of an evaluation: the weighted sum of its breakdown in millionths, with the
\* weights 0.25, 0.25, 0.20, 0.20, 0.10
SumOfBreakdown(e) ==
  250 * e.result.breakdown.builder_activity
    + 250 * e.result.breakdown.ai_native_evidence
    + 200 * e.result.breakdown.technical_depth
    + 200 * e.result.breakdown.role_fit
    + 100 * e.result.breakdown.identity_confidence
Evaluations == { scoring.evaluations[i] : i \in 1..Len(scoring.evaluations) }

\* C13 (as stated): for every computeCandidateScore input, total equals the
\* weighted sum of the rounded breakdown values rounded half away from zero to
\* 3 decimals, so |total - sum| <= 0.001.
C13_TotalIsRoundedSum ==
  \A e \in Evaluations :
    /\ e.result.total = (SumOfBreakdown(e) + 500) \div 1000
    /\ 1000 * e.result.total - SumOfBreakdown(e) <= 1000
    /\ SumOfBreakdown(e) - 1000 * e.result.total <= 1000

\* C13 (amended): total is a thousandth nearest to the weighted sum of the
\* rounded breakdown values, |total - sum| <= 0.0005; it is the half-away
\* rounding unless the sum is an exact half thousandth, where it is either
\* neighbour.
C13_TotalNearestToSum ==
  \A e \in Evaluations :
    /\ 1000 * e.result.total - SumOfBreakdown(e) <= 500
    /\ SumOfBreakdown(e) - 1000 * e.result.total <= 500
    /\ SumOfBreakdown(e) % 1000 # 500
         => e.result.total = (SumOfBreakdown(e) + 500) \div 1000

\* builder_activity 0.25, technical_depth 0.25, role_fit 0.6, nothing else:
\* the sum is 0.2325 and the total 0.232
C13_Witness ==
  \E e \in Evaluations :
    /\ e.result.breakdown = [builder_activity |-> 250, ai_native_evidence |-> 0,
                             technical_depth |-> 250, role_fit |-> 600,
                             identity_confidence |-> 0]
    /\ SumOfBreakdown(e) = 232500
    /\ e.result.total = 232

C15_OpenToWorkNoScoreEffect ==
  \A e \in Evaluations, f \in Evaluations :
    (~e.openToWork /\ f.openToWork)
      => /\ e.result.total = f.result.total
         /\ e.result.breakdown = f.result.breakdown
         /\ e.result.shortlistEligible = f.result.shortlistEligible
         /\ e.result.outreachAngle = f.result.outreachAngle
         /\ f.result.concerns
              = Append(e.result.concerns, "open_to_work_signal_recorded_no_penalty")

\* One input evaluated without and with the flag, other concerns present
C15_Witness ==
  /\ Len(scoring.evaluations) = 2
  /\ ~scoring.evaluations[1].openToWork /\ scoring.evaluations[2].openToWork
  /\ Len(scoring.evaluations[1].result.concerns) >= 2
  /\ Len(scoring.evaluations[2].result.concerns)
       = Len(scoring.evaluations[1].result.concerns) + 1

\* C18: resolveIdentity's confidence is the largest score among the rules that
\* fire (direct link 0.95, reverse link via the site 0.90, full employer +
\* location + handle context 0.82, partial context 0.70 only when the full
\* context does not fire), 0 when none fires; reasons holds the tag of each rule
\* that fired and unconfirmed_no_strong_match exactly when none did; a direct
\* link gives CONFIRMED and eligible, the full context alone HIGH and eligible,
\* no rule LOW and not eligible.
SameText(a, b) ==
  /\ a # << >>
  /\ b # << >>
  /\ LowerText(Trim(a)) = LowerText(Trim(b))
DirectLinkFires(i) ==
  /\ normalizeUrl(i.linkedin.profileUrl) # << >>
  /\ \E other \in {i.github.profileLinkedinUrl, i.x.profileLinkedinUrl,
                   i.personalSite.linkedinUrl} :
       /\ normalizeUrl(other) # << >>
       /\ normalizeUrl(normalizeUrl(other)) = normalizeUrl(i.linkedin.profileUrl)
ReverseLinkFires(i) ==
  /\ normalizeUrl(i.linkedin.profileUrl) # << >>
  /\ \/ /\ normalizeUrl(i.github.url) # << >>
        /\ normalizeUrl(i.personalSite.githubUrl) = normalizeUrl(i.github.url)
     \/ /\ normalizeUrl(i.x.url) # << >>
        /\ normalizeUrl(i.personalSite.xUrl) = normalizeUrl(i.x.url)
HandlesMatch(i) ==
  /\ Trim(i.github.handle) # << >>
  /\ Trim(i.x.handle) # << >>
  /\ LowerText(Trim(i.github.handle)) = LowerText(Trim(i.x.handle))
FullContextFires(i) ==
  /\ SameText(i.linkedin.employer, i.github.employer)
  /\ SameText(i.linkedin.location, i.github.location)
  /\ HandlesMatch(i)
PartialContextFires(i) ==
  /\ ~FullContextFires(i)
  /\ SameText(i.linkedin.employer, i.github.employer)
  /\ SameText(i.linkedin.location, i.github.location) \/ HandlesMatch(i)
FiredScores(i) ==
  (IF DirectLinkFires(i) THEN {950} ELSE {})
    \cup (IF ReverseLinkFires(i) THEN {900} ELSE {})
    \cup (IF FullContextFires(i) THEN {820} ELSE {})
    \cup (IF PartialContextFires(i) THEN {700} ELSE {})
FiredTags(i) ==
  (IF DirectLinkFires(i) THEN {"direct_profile_link"} ELSE {})
    \cup (IF ReverseLinkFires(i) THEN {"reverse_link_via_site"} ELSE {})
    \cup (IF FullContextFires(i) THEN {"strong_context_employer_location_handle"} ELSE {})
    \cup (IF PartialContextFires(i) THEN {"context_partial_match"} ELSE {})
    \cup (IF FiredScores(i) = {} THEN {"unconfirmed_no_strong_match"} ELSE {})
C18_ConfidenceIsBestRule ==
  (resolved.set /\ resolved.done) =>
    LET i == resolved.input
        r == resolved.result
    IN /\ r.confidence = Max(FiredScores(i) \cup {0})
       /\ { r.reasons[k] : k \in DOMAIN r.reasons } = FiredTags(i)
       /\ Len(r.reasons) = Cardinality(FiredTags(i))
       /\ DirectLinkFires(i) => (r.band = "CONFIRMED" /\ r.shortlistEligible)
       /\ (FiredScores(i) = {820}) => (r.band = "HIGH" /\ r.shortlistEligible)
       /\ (FiredScores(i) = {}) => (r.band = "LOW" /\ ~r.shortlistEligible)

\* A resolved input on which the full context fires together with the reverse
\* link, so that the partial rule is passed over and the larger score wins
C18_Witness ==
  /\ resolved.set
  /\ resolved.done
  /\ FiredScores(resolved.input) = {900, 820}
  /\ resolved.result.confidence = 900
  /\ resolved.result.reasons
       = <<"reverse_link_via_site", "strong_context_employer_location_handle">>

\* C16: every identity row run() persists has the band of its confidence
\* (>= 0.9 CONFIRMED, >= 0.8 HIGH, >= 0.6 MEDIUM, else LOW) and is flagged
\* eligible exactly when its band is CONFIRMED or HIGH and its confidence
\* reaches the configured threshold, whatever threshold in [0,1] is configured.
C16_PersistedIdentityBanded ==
  \A r \in candidate_identities :
    /\ r.band = (IF r.confidence >= 900 THEN "CONFIRMED"
                 ELSE IF r.confidence >= 800 THEN "HIGH"
                 ELSE IF r.confidence >= 600 THEN "MEDIUM" ELSE "LOW")
    /\ (r.confirmed = 1) <=>
         /\ r.band \in {"CONFIRMED", "HIGH"}
         /\ r.confidence >= svc["p1"].recruiting.identity.minConfidenceForShortlist

\* C17: a persisted score's shortlist flag equals the eligible flag of the
\* candidate's persisted cross_platform identity, in the state run() leaves and
\* in every later one, runs that enrich the candidate again included; the
\* identity's flag is the comparison of its confidence with a configured
\* threshold.
C17_ScoreFollowsIdentity ==
  \A x \in candidate_scores :
    \E i \in candidate_identities :
      /\ i.candidate_id = x.candidate_id
      /\ i.platform = "cross_platform"
      /\ x.shortlist_eligible = i.confirmed
      /\ \E p \in Procs :
           (i.confirmed = 1)
             <=> (i.confidence >= svc[p].recruiting.identity.minConfidenceForShortlist)

\* C19: after markRunCompleted(runId, d) or markRunFailed(runId, d),
\* getRunStatus(runId).diagnostics equals d, property by property, and the meta
\* of getResults(runId) carries d's counts, errorsByStage, searchQueryUsed,
\* modes, accountHealth and failure unchanged.
SameObject(got, d) ==
  /\ DOMAIN got \subseteq DOMAIN d
  /\ \A key \in DOMAIN d : Prop(got, key) = d[key]
SameDiagnostics(got, d) ==
  /\ DOMAIN got \subseteq DOMAIN d
  /\ \A key \in DOMAIN d \ {"searchQueryUsed"} : Prop(got, key) = d[key]
  /\ "searchQueryUsed" \in DOMAIN got
  /\ SameObject(got.searchQueryUsed, d.searchQueryUsed)
StoredLinks(candidateId, runId) ==
  { l \in candidate_evidence_links : l.candidate_id = candidateId /\ l.run_id = runId }
NotAfter(a, b) ==
  \/ a.relevance > b.relevance
  \/ (a.relevance = b.relevance /\ a.created_at >= b.created_at)
ResultRows(results) == results.shortlist \o results.reviewQueue
C20_TopThreeEvidence ==
  \A results \in getResults(1, 10) :
    \A n \in DOMAIN ResultRows(results) :
      LET row == ResultRows(results)[n]
          evidence == row.topEvidence
          stored == StoredLinks(row.candidateId, 1)
          linkOf(entry) == CHOOSE l \in stored : l.url = entry.url
          returned == { linkOf(evidence[i]) : i \in DOMAIN evidence }
      IN /\ Len(evidence) <= 3
         /\ Len(evidence) = (IF Cardinality(stored) < 3 THEN Cardinality(stored) ELSE 3)
         /\ \A i, j \in DOMAIN evidence : i # j => evidence[i].url # evidence[j].url
         /\ \A i \in DOMAIN evidence :
              \E l \in stored : /\ l.url = evidence[i].url
                                /\ l.relevance = evidence[i].relevance
                                /\ l.source = evidence[i].source
         /\ \A i, j \in DOMAIN evidence :
              i < j => NotAfter(linkOf(evidence[i]), linkOf(evidence[j]))
         /\ \A l \in stored \ returned : \A r \in returned : NotAfter(r, l)

\* Candidate a holds four links for run 1, two of one relevance stored at
\* different times and one without relevance, and its row carries three
C20_Witness ==
  /\ Cardinality(StoredLinks(<<"li", "a">>, 1)) = 4
  /\ \E l, m \in StoredLinks(<<"li", "a">>, 1) :
       l.relevance = 700 /\ m.relevance = 700 /\ l.created_at < m.created_at
  /\ \E l \in StoredLinks(<<"li", "a">>, 1) : l.relevance = undefined
  /\ \E results \in getResults(1, 10) :
       \E n \in DOMAIN ResultRows(results) :
         /\ ResultRows(results)[n].candidateId = <<"li", "a">>
         /\ Len(ResultRows(results)[n].topEvidence) = 3

\* C27: withRetry invokes its task at most 4 times, invokes it again only after
\* a failure classified retryable, returns at the first attempt that succeeds,
\* rethrows a non-retryable failure at once without sleeping, and rethrows the
\* last error after the 4th failed attempt.
C27_RetryPolicy ==
  retry.call.phase # "none" =>
    /\ retry.invoked <= 4
    /\ retry.invoked = retry.call.attempt
    /\ \A i \in 1..(retry.invoked - 1) :
         /\ i <= Len(retry.caught)
         /\ Retryable(retry.call.provider, retry.caught[i])
    /\ (IF retry.call.phase = "sleep" THEN Len(retry.slept) = retry.invoked ELSE Len(retry.slept) = retry.invoked - 1)
    /\ retry.call.phase = "task" => Len(retry.caught) = retry.invoked - 1
    /\ retry.call.phase = "sleep" =>
         /\ Len(retry.caught) = retry.invoked
         /\ Retryable(retry.call.provider, retry.caught[retry.invoked])
         /\ retry.invoked < 4
    /\ retry.call.phase = "resolved" =>
         /\ Len(retry.caught) = retry.invoked - 1
         /\ retry.call.err = OK
    /\ retry.call.phase = "rejected" =>
         /\ Len(retry.caught) = retry.invoked
         /\ retry.call.err = retry.caught[retry.invoked]
         /\ \/ ~Retryable(retry.call.provider, retry.call.err)
            \/ retry.invoked = 4

\* C27 witness: the fourth attempt failed retryably after three sleeps and its
\* error was rethrown
C27_Witness ==
  /\ retry.call.phase = "rejected"
  /\ retry.invoked = 4
  /\ Len(retry.slept) = 3
  /\ Retryable(retry.call.provider, retry.call.err)

\* C28: the sleep taken after failed attempt k is at least 600 k ms and at most
\* 600 k + 240 ms
C28_SleepWithinBaseJitter ==
  retry.call.phase # "none" =>
    \A k \in 1..Len(retry.slept) :
      /\ retry.slept[k] >= 600 * k
      /\ retry.slept[k] <= 600 * k + 240

\* C26: the targetCandidates stored on the run, used in the default idempotency
\* key and passed as the search limit lies in [1, 2000], and is the configured
\* default when the input gives none.
C26_TargetClamped ==
  /\ target.stage \in {"begun", "search"} =>
       /\ target.target_candidates >= Tenths(1)
       /\ target.target_candidates <= Tenths(2000)
       /\ target.dailyKey[2] >= Tenths(1)
       /\ target.dailyKey[2] <= Tenths(2000)
       /\ target.roleTarget = undefined =>
            target.target_candidates = target.config.run.targetCandidatesPerRole
  /\ target.stage = "search" =>
       /\ target.limit >= Tenths(1)
       /\ target.limit <= Tenths(2000)

\* C29: a run invocation that resumes an existing run changes nothing: no row
\* of any table is written, no id is drawn, no account is resolved and no
\* search or enrichment is issued, and it returns the status stored for the
\* run; having returned, it does nothing more.
C29_ResumeNoOp ==
  [][ \A p \in Procs :
        /\ (svc'[p].resumed /\ ~svc[p].resumed) =>
             /\ svc[p].pc = "idle"
             /\ svc'[p].pc = "done"
             /\ svc'[p].result = "returned"
             /\ svc'[p].runId \in RunIdsOf(pipeline_runs)
             /\ svc'[p].status = StatusIn(pipeline_runs, svc'[p].runId)
             /\ svc'[p].accountHealth = NoAccount
             /\ svc'[p].searched = "no"
             /\ svc'[p].sourced = << >>
             /\ svc'[p].counts = emptyCounts
             /\ storeVars' = storeVars
             /\ candidate_reviews' = candidate_reviews
             /\ candidate_verifications' = candidate_verifications
             /\ candidate_promotions' = candidate_promotions
             /\ uuid' = uuid
        /\ svc[p].resumed => svc'[p] = svc[p] ]_vars

\* C29 witness: an invocation resumed a completed run of the other invocation,
\* which had sourced a candidate
C29_Witness ==
  \E p \in Procs, q \in Procs :
    /\ svc[p].resumed /\ svc[p].pc = "done" /\ svc[p].status = "completed"
    /\ ~svc[q].resumed /\ svc[q].runId = svc[p].runId
    /\ svc[q].counts.sourced > 0

\* C22: once a run is completed or failed, no operation of the service (a run
\* with the same or another key, a status or results query, a review,
\* verification or promotion call) changes its status, finishedAt or
\* diagnostics.
C22_TerminalRunImmutable ==
  [][ \A r \in pipeline_runs :
        r.status \in {"completed", "failed"} =>
          \E x \in pipeline_runs' :
            /\ x.id = r.id
            /\ x.status = r.status
            /\ x.finished_at = r.finished_at
            /\ x.summary = r.summary
            /\ getRunStatus(pipeline_runs', r.id) = getRunStatus(pipeline_runs, r.id)
    ]_vars

\* C22 witness: a run failed at time 0; later an invocation with its key has
\* returned, another run has been completed and a workflow call or query made
C22_Witness ==
  \E r \in pipeline_runs, x \in pipeline_runs :
    /\ r.status = "failed" /\ r.finished_at = SqlInteger(0)
    /\ x.status = "completed" /\ x.finished_at = SqlInteger(1)
    /\ last.n = 1

\* C23: a run interrupted between candidates stays running until resumed, and
\* once run has been invoked again with its idempotency key (same runId,
\* resumed = true) the run eventually reaches completed or failed.
C23_ResumedRunFinishes ==
  \A r \in RunIds :
    ( /\ svc["p1"].pc = "cancelled" /\ svc["p1"].runId = r
      /\ svc["p2"].pc = "done" /\ svc["p2"].resumed /\ svc["p2"].runId = r
      /\ svc["p2"].key = svc["p1"].key )
    ~> (\E x \in pipeline_runs : x.id = r /\ x.status \in {"completed", "failed"})

\* C21: when tools.recruiting.enabled is not true, no entry point starts the
\* engine: a CLI subcommand exits 1 before constructing the service, the agent
\* tool is not created, no run row is created and no collaborator is called.
C21_DisabledNeverStarts ==
  (entryPoint.stage # "none" /\ entryPoint.raw.enabled # BooleanTrue) =>
    /\ entryPoint.stage \in {"start", "exited", "no_tool"}
    /\ entryPoint.via = "cli" => (entryPoint.stage = "exited" /\ entryPoint.exit = 1)
    /\ entryPoint.via = "tool" => entryPoint.stage = "no_tool"
    /\ pipeline_runs = {}
    /\ candidates = {}
    /\ uuid = 0
    /\ svc = [p \in Procs |-> idleSvc]
    /\ last = noCall

\* C21 witness: `recruiting run` under enabled: "true" (a string) exited 1
C21_Witness ==
  /\ entryPoint.stage = "exited"
  /\ entryPoint.command = "run"
  /\ entryPoint.exit = 1
  /\ entryPoint.raw.enabled = [type |-> "string", value |-> TRUE]

\* C24: for a candidate the four LinkedIn calls (profile, posts, comments,
\* reactions) are issued together: the step that issues the profile call also
\* issues the posts, comments and reactions calls, none waiting for the profile.
C24_FourCallsIssuedTogether ==
  [][\A i \in 1..MaxCands :
       ((\E c \in calls' : c.idx = i /\ c.name = "profile")
          /\ ~(\E c \in calls : c.idx = i /\ c.name = "profile"))
       => \A name \in LinkedInActivity :
            \E c \in calls' : c.idx = i /\ c.name = name]_vars

\* C25: candidates are processed strictly one after the other: the calls in
\* flight (task running or retry sleep pending) all belong to one candidate, and
\* the run is not completed while a call is in flight.
C25_OneCandidateInFlight ==
  /\ \A c \in InFlight : \A d \in InFlight : c.idx = d.idx
  /\ \A r \in pipeline_runs : r.status = "completed" => InFlight = {}

\* C30: a step writes identity, signal, score or evidence rows only when all
\* five collaborator calls of the candidate at hand have returned successfully,
\* and the step that records a candidate's failure writes none of them.
C30_RowsOnlyAfterAllCallsReturned ==
  [][(\/ candidate_identities' # candidate_identities
      \/ candidate_signals' # candidate_signals
      \/ candidate_scores' # candidate_scores
      \/ candidate_evidence_links' # candidate_evidence_links)
     => /\ \A name \in CandidateCalls :
             \E c \in calls' : /\ c.idx = svc["p1"].idx
                               /\ c.name = name
                               /\ c.call.phase = "resolved"
        /\ \A c \in calls' : c.idx = svc["p1"].idx => c.call.phase = "resolved"
        /\ run_failures' = run_failures
        /\ \A row \in candidate_scores' \ candidate_scores :
             row.candidate_id = svc["p1"].candidateId
        /\ \A row \in candidate_identities' \ candidate_identities :
             row.candidate_id = svc["p1"].candidateId]_vars

\* C30 witness: the first candidate failed on a call and has no rows, the
\* second has its identity, signal, score and evidence rows
C30_Witness ==
  /\ svc["p1"].pc = "done"
  /\ svc["p1"].idx = 2
  /\ svc["p1"].counts.enrichFailed = 1
  /\ svc["p1"].counts.enriched = 1
  /\ Len(run_failures[svc["p1"].runId]) = 1
  /\ \A name \in CandidateCalls :
       \E c \in calls : c.idx = 2 /\ c.name = name /\ c.call.phase = "resolved"
  /\ Cardinality(candidate_scores) = 1
  /\ candidate_identities # {}
  /\ candidate_signals # EmptyBag
  /\ candidate_evidence_links # {}
  /\ \A row \in candidate_scores :
       row.candidate_id # svc["p1"].sourced[1].provider_id

\* The upsertCandidate call of this step was given this input: it is new among
\* the returned calls or among the raised ones
UpsertedNow(input) ==
  /\ upserts'.n = upserts.n + 1
  /\ \/ input \in upserts'.raised \ upserts.raised
     \/ \E call \in upserts'.returned \ upserts.returned : call.input = input

\* C31: upsertCandidate resolves by providerId first: a call whose providerId
\* matches existing candidate A while its publicIdentifier or profile-url hash
\* matches another existing candidate B succeeds and returns A's candidateId.
C31_ProviderIdTakesPriority ==
  [][\A input \in UpsertInputs : \A A \in candidates : \A B \in candidates :
       (/\ UpsertedNow(input)
        /\ A.id # B.id
        /\ input.provider_id # NULL
        /\ A.provider_id = input.provider_id
        /\ \/ input.public_identifier # NULL
                /\ B.public_identifier = input.public_identifier
           \/ normalizeProfileUrl(input.profile_url) # << >>
                /\ B.normalized_profile_url_hash
                     = hashUrl(normalizeProfileUrl(input.profile_url)))
       => [input |-> input, candidateId |-> A.id] \in upserts'.returned]_vars

\* The candidates under verification for the run
UnderVerification(runId) ==
  { r.candidate_id : r \in { r \in candidate_reviews :
                               r.run_id = runId /\ r.status = "under_verification" } }

\* The review priority and the total score of a queue entry
QueueRank(runId, item) ==
  [priority |-> (CHOOSE r \in candidate_reviews :
                   r.candidate_id = item.candidateId /\ r.run_id = runId).priority,
   total_score |-> item.totalScore]

\* C32: getVerificationQueue(runId, limit) returns the candidates under
\* verification for the run and no other, by priority then total score
\* descending, at most limit of them, and all of them when limit is large
\* enough.
C32_QueueIsUnderVerification ==
  (last.op = "getVerificationQueue" /\ last.arg = "all") =>
    /\ \A i \in DOMAIN last.result :
         last.result[i].candidateId \in UnderVerification(last.runId)
    /\ Len(last.result) <= last.links
    /\ \A i \in DOMAIN last.result : \A j \in DOMAIN last.result :
         i < j => <<QueueRank(last.runId, last.result[i]),
                    QueueRank(last.runId, last.result[j])>>
                    \in queueOrder({ QueueRank(last.runId, last.result[k])
                                     : k \in DOMAIN last.result })
    /\ last.links >= Cardinality(UnderVerification(last.runId)) =>
         { last.result[i].candidateId : i \in DOMAIN last.result }
           = UnderVerification(last.runId)

\* C39: after any sequence of updateReviewStatus, submitVerification and
\* promoteCandidate every candidate_reviews row has priority 0, and
\* getVerificationQueue with priority "high" returns the empty list.
C39_PriorityAlwaysZero ==
  /\ \A r \in candidate_reviews : r.priority = 0
  /\ \A runId \in RunIds : \A limit \in QueueLimits :
       getVerificationQueue(runId, limit, "high") = { << >> }
  /\ (last.op = "getVerificationQueue" /\ last.arg = "high") => last.result = << >>

\* C39 witness: after a review update and a promotion, the "high" queue of a
\* run came back empty while a scored candidate of it is under verification
C39_Witness ==
  /\ last.op = "getVerificationQueue"
  /\ last.arg = "high"
  /\ last.n = MaxCalls + 1
  /\ last.result = << >>
  /\ candidate_promotions # << >>
  /\ \E r \in candidate_reviews : r.notes # NULL \/ r.status = "deferred"
  /\ getVerificationQueue(last.runId, 5, "all") # { << >> }

\* The pair's review status is promoted_shortlist
Promoted(rows, candidateId, runId) ==
  \E r \in rows : /\ r.candidate_id = candidateId /\ r.run_id = runId
                  /\ r.status = "promoted_shortlist"

\* C40 (as stated): for each (candidate, run) pair the review status is
\* promoted_shortlist iff a candidate_promotions row exists for the pair, and
\* the promotedCount of a run equals the number of its promotion records.
C40_PromotedIffPromotion ==
  /\ \A c \in WfCandidateIds, r \in WfRunIds :
       Promoted(candidate_reviews, c, r) <=> PromotionsOf(c, r) # {}
  /\ \A r \in WfRunIds :
       getWorkflowStats(candidate_reviews, r).promotedCount
         = Cardinality({ i \in DOMAIN candidate_promotions :
                           candidate_promotions[i].run_id = r })

\* C40 (amended): the step in which promoteCandidate succeeds leaves the pair
\* with one promotion row and review status promoted_shortlist, so that the
\* run's promotedCount is then at least 1; the status is also set without a
\* promotion row, and a promoted pair's status can change afterwards.
C40_PromotionSetsStatus ==
  [][ (IsCall("promoteCandidate") /\ last'.result = "success_true")
      => /\ Len(candidate_promotions') = Len(candidate_promotions) + 1
         /\ Cardinality({ i \in DOMAIN candidate_promotions' :
                            /\ candidate_promotions'[i].candidate_id = last'.candidateId
                            /\ candidate_promotions'[i].run_id = last'.runId }) = 1
         /\ Promoted(candidate_reviews', last'.candidateId, last'.runId)
         /\ getWorkflowStats(candidate_reviews', last'.runId).promotedCount >= 1 ]_vars

\* C40 witness: a pair promoted, another pair's status promoted_shortlist
\* without a promotion row
C40_Witness ==
  /\ last.op = "promoteCandidate"
  /\ last.result = "success_true"
  /\ Len(candidate_promotions) = 1
  /\ getWorkflowStats(candidate_reviews, last.runId).promotedCount = 2
  /\ \E r \in candidate_reviews :
       /\ r.status = "promoted_shortlist"
       /\ r.candidate_id # last.candidateId
       /\ PromotionsOf(r.candidate_id, r.run_id) = {}

\* The failures recorded for a run in a stage
FailuresOf(runId, stage) ==
  { i \in DOMAIN run_failures[runId] : run_failures[runId][i].step = stage }

\* C37: in the diagnostics of a finished run the count of each entry of
\* errorsByStage is the number of run_failures rows of the run in that stage,
\* however many distinct messages the stage saw.
C37_StageCountIsFailureRows ==
  \A r \in pipeline_runs :
    r.status \in {"completed", "failed"} /\ ~r.summary.null =>
      \A i \in DOMAIN r.summary.json.errorsByStage :
        r.summary.json.errorsByStage[i].count =
          Cardinality(FailuresOf(r.id, r.summary.json.errorsByStage[i].stage))

\* The counts in the summary a finished run was marked with
CountsOf(r) == r.summary.json.counts

\* C36: the diagnostics of a completed run have enriched + enrichFailed =
\* sourced and shortlistEligible <= enriched; those of a failed run have
\* enriched + enrichFailed <= sourced.
C36_CountsAddUp ==
  \A r \in pipeline_runs :
    /\ r.status = "completed" =>
         /\ CountsOf(r).enriched + CountsOf(r).enrichFailed = CountsOf(r).sourced
         /\ CountsOf(r).shortlistEligible <= CountsOf(r).enriched
    /\ r.status = "failed" =>
         CountsOf(r).enriched + CountsOf(r).enrichFailed <= CountsOf(r).sourced

\* A run completed with a candidate enriched and another one failed
C36_Witness ==
  \E r \in pipeline_runs :
    /\ r.status = "completed"
    /\ CountsOf(r).enriched >= 1
    /\ CountsOf(r).enrichFailed >= 1

\* C38: whatever run() persists as an identity has confidence 0 and band LOW,
\* its counts never raise identityConfirmedHigh, it stores no
\* browser_verification_needed signal, and under a threshold above 0 it scores
\* no candidate as shortlist-eligible.
C38_IdentityNeverConfirmed ==
  /\ \A row \in candidate_identities : row.confidence = 0 /\ row.band = "LOW"
  /\ \A p \in Procs : svc[p].counts.identityConfirmedHigh = 0
  /\ \A r \in pipeline_runs :
       ~r.summary.null => r.summary.json.counts.identityConfirmedHigh = 0
  /\ \A sig \in DOMAIN candidate_signals : sig.signal_key # "browser_verification_needed"
  /\ \A p \in Procs :
       svc[p].recruiting.identity.minConfidenceForShortlist > 0 =>
         \A row \in candidate_scores :
           row.run_id = svc[p].runId => row.shortlist_eligible = 0

\* A run completed under enabled high_only verification and a threshold above
\* 0, with a candidate enriched whose GitHub and X hits were found
C38_Witness ==
  /\ svc["p1"].browserVerificationEnabled
  /\ svc["p1"].recruiting.browserVerification.mode = "high_only"
  /\ svc["p1"].recruiting.identity.minConfidenceForShortlist > 0
  /\ svc["p1"].status = "completed"
  /\ \E row \in candidate_identities : row.platform = "github"
  /\ \E row \in candidate_scores : row.run_id = svc["p1"].runId

\* The invocation p has created a run and not yet returned
InRun(p) == svc[p].pc \in {"preflight", "search", "upsert", "profile", "activity", "external"}
\* The invocation p has returned the run it created
ReturnedOwnRun(p) == svc[p].pc = "done" /\ svc[p].result = "returned" /\ ~svc[p].resumed

\* C35: an invocation of run() that created its run returns, and when it has
\* returned the run is completed or failed, never running.
C35_RunTerminates ==
  /\ [](\A p \in Procs :
          ReturnedOwnRun(p) =>
            StatusIn(pipeline_runs, svc[p].runId) \in {"completed", "failed"})
  /\ \A p \in Procs : InRun(p) ~> ReturnedOwnRun(p)

\* The invocation has returned its run, completed after a candidate failed
C35_Witness ==
  /\ ReturnedOwnRun("p1")
  /\ svc["p1"].status = "completed" /\ svc["p1"].counts.enrichFailed = 1

\* The keywords texts of search parameters: top-level, role, skill, company
KeywordsTextsOf(search) ==
  {search.keywords}
    \cup { search.role[i].keywords : i \in DOMAIN search.role }
    \cup { search.skills[i].keywords : i \in DOMAIN search.skills }
    \cup { search.company[i].keywords : i \in DOMAIN search.company }

\* The term occurs in the text as whole words, whatever the case
ContainsTerm(text, term) ==
  \E i \in DOMAIN text :
    /\ i + Len(term) - 1 <= Len(text)
    /\ [k \in 1..Len(term) |-> LowerWord(text[i + k - 1])] = term

\* C33: in broad mode no keywords text of the parameters sent to the search
\* contains an AI-native source term as a whole word, in any case; in default
\* mode the parameters are sent as given.
C33_BroadHasNoAiNativeTerm ==
  sourceSearch.stage = "sent" =>
    IF sourceSearch.mode = "broad"
    THEN \A text \in KeywordsTextsOf(sourceSearch.search) :
           \A t \in DOMAIN AI_NATIVE_SOURCE_TERMS :
             ~ContainsTerm(text, AI_NATIVE_SOURCE_TERMS[t])
    ELSE sourceSearch.search = sourceSearch.input

\* The time a cached answer of the function lives
TtlOf(fn) == IF fn = "searchExa" THEN 15 * 60 * 1000 ELSE 60 * 60 * 1000

\* C34: a search or fetch begun less than its TTL (15 and 60 minutes) after
\* the collaborator last answered for the same key returns that answer and
\* calls no collaborator; begun once the TTL has elapsed, or with no answer
\* yet, it calls the collaborator; and a call that throws leaves no entry.
C34_CachedWithinTtl ==
  [][ /\ (webCall'.phase # "none" /\ webCall' # webCall /\ webCall.phase # "awaiting") =>
           IF webCall'.key \in DOMAIN webHistory
                /\ now - webHistory[webCall'.key].at < TtlOf(webCall'.fn)
           THEN /\ webCall'.phase = "returned" /\ ~webCall'.called
                /\ webCall'.value = webHistory[webCall'.key].value
           ELSE webCall'.phase = "awaiting" /\ webCall'.called
      /\ webCall'.phase = "threw" =>
           /\ webCall'.key \notin DOMAIN SEARCH_CACHE'
           /\ webCall'.key \notin DOMAIN FETCH_CACHE'
    ]_vars

\* A search answered from the cache 10 minutes after the collaborator's answer,
\* while a page fetched 55 minutes earlier is still cached
C34_Witness ==
  /\ webCall.phase = "returned" /\ webCall.fn = "searchExa" /\ ~webCall.called
  /\ webCall.value # << >>
  /\ now - webHistory[webCall.key].at = 10 * 60 * 1000
  /\ \E url \in DOMAIN FETCH_CACHE : now - webHistory[url].at = 55 * 60 * 1000

====
